---- MODULE Spec2Model ----
(***************************************************************************)
(* State-machine model of the conveyor print dispatch engine:              *)
(*   - the device detector thread (conveyor/printer/s3g.py,                *)
(*     S3gDetectorThread),                                                 *)
(*   - the per-printer worker thread (S3gPrinterThread) with the stream    *)
(*     print of S3gDriver,                                                 *)
(*   - the recipe planner and the processes it builds (conveyor/recipe.py),*)
(*   - one call of S3gDriver._genericprint, one verify task, one call of   *)
(*     RecipeManager.getrecipe, and the calls of Recipe.getgcodeprocessors *)
(*     for one job.                                                        *)
(* Each subsystem has its own specification (SpecDetector, SpecWorker,     *)
(* SpecRecipe, SpecStream, SpecVerify, SpecPlanner, SpecProcessors); the   *)
(* variables of the other subsystems stay at their initial values.         *)
(***************************************************************************)
EXTENDS Integers, Sequences, FiniteSets

(***************************************************************************)
(* Bounds of the model and values of the configuration.                    *)
(***************************************************************************)
\* the wall clock (time.time()) runs from 0 to MaxTime
MaxTime == 4
\* config['server']['blacklisttime']
Blacklisttime == 2
\* the serial ports the device library can report
Ports == {"p1", "p2"}
\* "no entry" in a dict keyed by port
NoEntry == -1
\* the number of print jobs submitted to one printer worker
MaxJobs == 2
\* the number of lines of a job's toolpath
GcodeLines == 2
\* "no task": None in self._currenttask and in tuple_
NoTask == 0
\* the port whose history is recorded for the properties about "a port P"
\* (the detector treats all ports alike)
P == "p1"

\* the most lines a streamed toolpath has, and the latest clock reading
MaxLines == 3
MaxClock == 11
\* the raw lengths a toolpath line can have (newline included)
LineLengths == {1, 4}
\* the most percentages the file reader reports in one verification
MaxReports == 4
\* the most entries a job's processor list has, and the most calls of
\* getgcodeprocessors made for one job
MaxListLen == 3
MaxCalls == 3
\* the most lines of the toolpath a job prints
MaxBodyLines == 2
\* the most lines of output read from the slicer
MaxSliceLines == 6
\* the most calls made on one task
MaxTaskCalls == 4
\* the most parts an address string is made of
MaxAddrLen == 5
\* pollinterval, as both callers of _genericprint pass it (5.0)
Pollinterval == 5
\* the temperature poll period _genericprint adds at line 260 (5.0)
TemperatureInterval == 5

VARIABLES
    \* ---- the clock, shared by every thread
    now,
    \* ---- S3gDetectorThread
    machines,       \* what MachineDetector.get_available_machines() reports
    available,      \* self._available (keys): the known ports
    blacklist,      \* self._blacklist: port -> unlisttime, NoEntry if absent
    d_stop,         \* self._stop
    d_pc,           \* position of the detector thread
    iterNow,        \* local `now` of _runiteration (line 49)
    seen,           \* local `available` of _runiteration (line 54)
    blAtDiff,       \* set(self._blacklist.keys()) as read at line 58
    detached,       \* local `detached`
    attached,       \* local `attached`
    printers,       \* the registry: ports with a published worker
    \* ---- history of the detector, for the properties
    unlistAt,       \* unlisttime computed by the latest blacklist(P) call
    unlistAtIter,   \* unlistAt when the current iteration started
    contAvail,      \* P was available at, and ever since, its latest blacklist call
    dueNow,         \* this is the first iteration after P's blacklist time has expired
    lastSeen,       \* local `available` of the latest iteration that reached line 73
    removedSince,   \* removeprinter(P) was requested since the latest spawn for P
    \* ---- conveyor.task.Task, one per print job
    taskState,      \* task.state
    handlers,       \* the handlers attached to task.stoppedevent, in order
    fireQ,          \* per thread: the handlers of the event it is firing, still to call
    \* ---- S3gPrinterThread
    w_queue,        \* self._queue (left end first)
    w_stop,         \* self._stop
    w_currenttask,  \* self._currenttask
    w_lock,         \* owner of self._lock, "free" if none
    w_pc,           \* position of the worker thread
    w_tuple,        \* local tuple_ / task of run()
    w_line,         \* lines dispatched to the parser by the current stream print
    w_extstop,      \* the writer of the current stream print was told set_external_stop()
    fpClosed,       \* number of self._fp.close() calls
    evicted,        \* number of self._server.evictprinter calls
    s_pc,           \* position of the thread that calls stop()
    c_pc,           \* position of the thread that cancels tasks
    \* ---- history of the worker, for the properties
    submitted,      \* number of print() calls that returned (tasks are numbered in that order)
    popped,         \* the tasks in the order the worker popped them
    escaped,        \* an exception escaped the worker's loop
    cancelledAt,    \* the lines dispatched when the task being streamed was cancelled
                    \* (its stream loop running), NoEntry if it was not
    returned,       \* the stream print of the task popped last has returned
    \* ---- a recipe (conveyor/recipe.py) and the process it builds
    r_kind,         \* the recipe class: "gcode", "stl" or "dual"
    r_mode,         \* the method called: "print", "printtofile" or "slice"
    r_procs,        \* getgcodeprocessors() returned a nonempty list
    r_plan,         \* the tasks built, the paths allocated, whether a handler is attached
                    \* to process.endevent, and the paths that handler unlinks
    p_state,        \* state of the process
    c_state,        \* states of its child tasks
    files,          \* the paths that exist as files
    cleanupRuns,    \* number of runs of process_endcallback
    unlinkCalls,    \* the paths os.unlink was called with, in order
    raisedIn,       \* the child whose runningcallback body raised, 0 if none
    escapedIn,      \* the child whose runningcallback let the exception out, 0 if none
    c_log,          \* the events fired by the children, in order, as <<event, child>>,
                    \* and <<"cancel", 0>> for a cancel of the process
    c_cause,        \* the cause each child failed with, "None" if it did not
    p_cause,        \* the cause the process failed with, "None" if it did not
    \* ---- one call of S3gDriver._genericprint and its task
    g_pc,           \* position in _genericprint
    g_polltemperature, \* the polltemperature argument
    g_gcodelines,   \* gcodelines: the raw length of each line, in order
    g_totallines,   \* totallines
    g_totalbytes,   \* totalbytes
    g_currentline,  \* the lines taken from enumerate(gcodelines) so far
    g_currentbyte,  \* currentbyte
    g_now,          \* local now: the latest time.time() reading
    g_polltime,     \* polltime
    g_temperature,  \* when the temperature held in `temperature` was read, NoEntry if never
    g_state,        \* task.state
    g_extstop,      \* writer.set_external_stop() was called
    g_beats,        \* the progress records passed to task.heartbeat, in order
    \* ---- history of the stream print, for the properties
    g_lastbeat,     \* the time of the latest heartbeat, or of the start of the print
    \* ---- one task built by Recipe.verifys3gtask
    v_pc,           \* position of runningcallback
    v_heap,         \* the dict objects: object -> its contents
    v_state,        \* task.state
    v_result,       \* what the task ended or failed with
    v_beats,        \* the records the task's heartbeat event was fired with, in order
    \* ---- history of the verification, for the properties
    v_reported,     \* the percentages the file reader passed to update, in order
    \* ---- one call of RecipeManager.getrecipe
    pl_pc,          \* "idle" before the call, "done" after it
    pl_path,        \* job.path, a sequence of characters
    pl_fs,          \* what job.path is on disk: "missing", "file" or "other"
    pl_code,        \* the exit code of the splitter
    pl_meshes,      \* which of the two well-known mesh files the splitter left
    pl_result,      \* what the call returned or raised
    \* ---- a job and the calls of Recipe.getgcodeprocessors for it
    j_pc,           \* "idle" before the job is made, "ready" after
    j_job,          \* the job: gcodeprocessor (None or a list object), the
                    \* slicer, slicer_settings.path; and config's profile
    j_results,      \* what each call returned, in order
    j_settings,     \* the per-extruder slicer settings objects made for the job
    \* ---- history of the job, for the properties
    j_original,     \* job.gcodeprocessor as the job was made
    j_submitted,    \* the whole job as it was made
    \* ---- one call of Address.parse
    a_pc,           \* "idle" before the call, "done" after it
    a_s,            \* the argument s
    a_result,       \* the address returned, or the exception raised
    \* ---- two tasks, named after their bodies, and the calls made on them
    t_state,        \* task -> state
    t_events,       \* task -> the events fired so far, in order
    t_calls,        \* task -> the number of calls made on it
    t_returned,     \* task -> its body has made its last call
    t_late,         \* task -> the <<caller, state>> of calls on a terminal task
    \* ---- one call of MiracleGrueToolpath.slice and its subprocess
    sl_pc,          \* position of the thread inside slice
    sl_child,       \* the subprocess: "none", "running", or how it exited
    sl_task,        \* task.state
    sl_attached,    \* cancelcallback is attached to task.cancelevent
    sl_lines,       \* lines of the subprocess's output read so far
    sl_files,       \* the temporary start and end files that exist
    sl_terminates,  \* number of popen.terminate() calls
    sl_cancelled,   \* what the subprocess did when the task was cancelled, else "no"
    \* ---- the start and end sequences of one print job, from the wrap stage
    \* ---- to the printer
    se_pc,          \* "idle", "job", "wrapped", "listed", "failed" or "done"
    se_job,         \* the job's flags, the profile's sequences, the toolpath's length
    se_file,        \* the lines of the wrap stage's output file
    se_gcodelines,  \* the list _gcodelines returned to the stream print
    se_streamed     \* the lines dispatched to the printer, in order

detVars == <<machines, available, blacklist, d_stop, d_pc, iterNow, seen, blAtDiff,
             detached, attached, printers, unlistAt, unlistAtIter, contAvail,
             dueNow, lastSeen,
             removedSince>>

taskVars == <<taskState, handlers, fireQ>>

wkVars == <<w_queue, w_stop, w_currenttask, w_lock, w_pc, w_tuple, w_line, w_extstop,
            fpClosed, evicted, s_pc, c_pc, submitted, popped, escaped, cancelledAt,
            returned>>

\* the history of the current stream print
wkHist == <<cancelledAt, returned>>

rcVars == <<r_kind, r_mode, r_procs, r_plan, p_state, c_state, files, cleanupRuns,
            unlinkCalls, raisedIn, escapedIn, c_log, c_cause, p_cause>>

\* the history of the process and the causes of its failures
rcHist == <<c_log, c_cause, p_cause>>

gpVars == <<g_pc, g_polltemperature, g_gcodelines, g_totallines, g_totalbytes,
            g_currentline, g_currentbyte, g_now, g_polltime, g_temperature, g_state,
            g_extstop, g_beats, g_lastbeat>>

vfVars == <<v_pc, v_heap, v_state, v_result, v_beats, v_reported>>

plVars == <<pl_pc, pl_path, pl_fs, pl_code, pl_meshes, pl_result>>

jbVars == <<j_pc, j_job, j_results, j_settings, j_original, j_submitted>>

adVars == <<a_pc, a_s, a_result>>

tkVars == <<t_state, t_events, t_calls, t_returned, t_late>>

slVars == <<sl_pc, sl_child, sl_task, sl_attached, sl_lines, sl_files, sl_terminates, sl_cancelled>>

seVars == <<se_pc, se_job, se_file, se_gcodelines, se_streamed>>

vars == <<now, detVars, taskVars, wkVars, rcVars, gpVars,
         vfVars, plVars, jbVars, adVars, tkVars, slVars, seVars>>

\* what the detector's actions leave alone, and what the worker's leave alone
notDet == <<taskVars, wkVars, rcVars, gpVars, vfVars, plVars, jbVars, adVars,
          tkVars,
          slVars,
          seVars>>
notWk == <<now, detVars, rcVars, gpVars, vfVars, plVars, jbVars, adVars,
          tkVars,
          slVars,
          seVars>>
notRc == <<now, detVars, taskVars, wkVars, gpVars, vfVars, plVars, jbVars, adVars,
          tkVars,
          slVars,
          seVars>>
notGp == <<now, detVars, taskVars, wkVars, rcVars, vfVars, plVars, jbVars, adVars,
          tkVars,
          slVars,
          seVars>>
notVf == <<now, detVars, taskVars, wkVars, rcVars, gpVars, plVars, jbVars, adVars,
          tkVars,
          slVars,
          seVars>>
notPl == <<now, detVars, taskVars, wkVars, rcVars, gpVars, vfVars, jbVars, adVars,
          tkVars,
          slVars,
          seVars>>
notJb == <<now, detVars, taskVars, wkVars, rcVars, gpVars, vfVars, plVars, adVars,
          tkVars,
          slVars,
          seVars>>
notAd == <<now, detVars, taskVars, wkVars, rcVars, gpVars, vfVars, plVars, jbVars,
          tkVars,
          slVars,
          seVars>>
notTk == <<now, detVars, taskVars, wkVars, rcVars, gpVars,
          vfVars, plVars, jbVars, adVars,
          slVars,
          seVars>>
notSl == <<now, detVars, taskVars, wkVars, rcVars, gpVars,
          vfVars, plVars, jbVars, adVars, tkVars,
          seVars>>
notSe == <<now, detVars, taskVars, wkVars, rcVars, gpVars,
          vfVars, plVars, jbVars, adVars, tkVars, slVars>>

(***************************************************************************)
(* The clock.                                                              *)
(***************************************************************************)
Tick ==
    /\ now < MaxTime
    /\ now' = now + 1
    /\ UNCHANGED <<detVars, taskVars, wkVars, rcVars, gpVars, vfVars, plVars, jbVars,
                   adVars, tkVars, slVars, seVars>>

(***************************************************************************)
(* S3gDetectorThread                                                       *)
(***************************************************************************)
\* keys of a port-keyed dict
Keys(d) == {p \in Ports : d[p] # NoEntry}

\* lines 50-53: `if unlisttime >= now: del self._blacklist[portname]`
Purge(bl, t) ==
    [p \in Ports |-> IF bl[p] # NoEntry /\ bl[p] >= t THEN NoEntry ELSE bl[p]]

\* new_keys without the blacklist subtracted
NewKeysIgnoringBlacklist(avail, blkeys) == avail

\* line 58: new_keys = set(available.keys()) - set(self._blacklist.keys())
NewKeys(avail, blkeys) == avail \ blkeys

DetInit ==
    /\ machines = {}
    /\ available = {}
    /\ blacklist = [p \in Ports |-> NoEntry]
    /\ d_stop = FALSE
    /\ d_pc = "idle"
    /\ iterNow = 0
    /\ seen = {}
    /\ blAtDiff = {}
    /\ detached = {}
    /\ attached = {}
    /\ printers = {}
    /\ unlistAt = NoEntry
    /\ unlistAtIter = NoEntry
    /\ contAvail = FALSE
    /\ dueNow = FALSE
    /\ lastSeen = {}
    /\ removedSince = FALSE

\* the environment: a device is plugged in
Plug(p) ==
    /\ p \notin machines
    /\ machines' = machines \cup {p}
    /\ UNCHANGED <<now, available, blacklist, d_stop, d_pc, iterNow, seen, blAtDiff,
                   detached, attached, printers, unlistAt, unlistAtIter, contAvail,
                   dueNow, lastSeen,
                   removedSince>>
    /\ UNCHANGED notDet

\* the environment: a device is unplugged
Unplug(p) ==
    /\ p \in machines
    /\ machines' = machines \ {p}
    /\ contAvail' = (contAvail /\ p # P)
    /\ UNCHANGED <<now, available, blacklist, d_stop, d_pc, iterNow, seen, blAtDiff,
                   detached, attached, printers, unlistAt, unlistAtIter,
                   dueNow, lastSeen,
                   removedSince>>
    /\ UNCHANGED notDet

\* lines 75-78: blacklist(portname), called by any thread, without the lock
Blacklist(p) ==
    /\ blacklist' = [blacklist EXCEPT ![p] = now + Blacklisttime]
    /\ unlistAt' = IF p = P THEN now + Blacklisttime ELSE unlistAt
    /\ contAvail' = IF p = P THEN P \in machines ELSE contAvail
    /\ UNCHANGED <<now, machines, available, d_stop, d_pc, iterNow, seen, blAtDiff,
                   detached, attached, printers, unlistAtIter,
                   dueNow, lastSeen,
                   removedSince>>
    /\ UNCHANGED notDet

\* lines 82-83 and 49-53: the loop test, then the purge of the blacklist
DetPurge ==
    /\ d_pc = "idle"
    /\ ~d_stop
    /\ iterNow' = now
    /\ blacklist' = Purge(blacklist, now)
    /\ d_pc' = "purged"
    /\ unlistAtIter' = unlistAt
    /\ dueNow' = (contAvail /\ unlistAt <= now)
    /\ contAvail' = (contAvail /\ ~(unlistAt <= now))
    /\ UNCHANGED <<now, machines, available, d_stop, seen, blAtDiff,
                   detached, attached, printers, unlistAt, lastSeen,
                   removedSince>>
    /\ UNCHANGED notDet

\* lines 54-60: query the device library and compute the attach/detach diff
DetDiff ==
    /\ d_pc = "purged"
    /\ seen' = machines
    /\ blAtDiff' = Keys(blacklist)
    /\ detached' = available \ NewKeys(machines, Keys(blacklist))
    /\ attached' = NewKeys(machines, Keys(blacklist)) \ available
    /\ d_pc' = "diffed"
    /\ UNCHANGED <<now, machines, available, blacklist, d_stop, iterNow,
                   printers, unlistAt, unlistAtIter, contAvail, dueNow, lastSeen,
                   removedSince>>
    /\ UNCHANGED notDet

\* _runiteration returns: its locals are gone
DetReturn ==
    /\ iterNow' = 0
    /\ seen' = {}
    /\ blAtDiff' = {}
    /\ detached' = {}
    /\ attached' = {}
    /\ unlistAtIter' = NoEntry
    /\ dueNow' = FALSE

\* lines 61-72, for the watched port: removeprinter(P) is requested when P is
\* detached, and a worker for P is spawned and published when P is attached
RemovedAfter(removed, det, att) ==
    IF P \in att THEN FALSE ELSE IF P \in det THEN TRUE ELSE removed

\* line 73 as `self._available = new_keys`
DetApplyKnownIsNew ==
    /\ d_pc = "diffed"
    /\ printers' = (printers \ detached) \cup attached
    /\ available' = NewKeys(seen, blAtDiff)
    /\ lastSeen' = seen
    /\ removedSince' = RemovedAfter(removedSince, detached, attached)
    /\ d_pc' = "idle"
    /\ DetReturn
    /\ UNCHANGED <<now, machines, blacklist, d_stop, unlistAt, contAvail>>
    /\ UNCHANGED notDet

\* lines 61-73: removeprinter for the detached ports, spawn and appendprinter
\* for the attached ports, then self._available = available
DetApply ==
    /\ d_pc = "diffed"
    /\ printers' = (printers \ detached) \cup attached
    /\ available' = seen
    /\ lastSeen' = seen
    /\ removedSince' = RemovedAfter(removedSince, detached, attached)
    /\ d_pc' = "idle"
    /\ DetReturn
    /\ UNCHANGED <<now, machines, blacklist, d_stop, unlistAt, contAvail>>
    /\ UNCHANGED notDet

\* lines 61-65 and 87-88: factory.build_from_port raises for the first attached
\* port; run() logs the exception and the detector thread ends
DetBuildFails ==
    /\ d_pc = "diffed"
    /\ attached # {}
    /\ printers' = printers \ detached
    /\ d_pc' = "dead"
    /\ DetReturn
    /\ removedSince' = RemovedAfter(removedSince, detached, {})
    /\ UNCHANGED <<now, machines, available, blacklist, d_stop, unlistAt, contAvail,
                   lastSeen>>
    /\ UNCHANGED notDet

\* lines 90-93: stop()
DetStop ==
    /\ ~d_stop
    /\ d_stop' = TRUE
    /\ UNCHANGED <<now, machines, available, blacklist, d_pc, iterNow, seen, blAtDiff,
                   detached, attached, printers, unlistAt, unlistAtIter, contAvail,
                   dueNow, lastSeen,
                   removedSince>>
    /\ UNCHANGED notDet

\* line 82: the loop test fails and run() returns
DetExit ==
    /\ d_pc = "idle"
    /\ d_stop
    /\ d_pc' = "stopped"
    /\ UNCHANGED <<now, machines, available, blacklist, d_stop, iterNow, seen, blAtDiff,
                   detached, attached, printers, unlistAt, unlistAtIter, contAvail,
                   dueNow, lastSeen,
                   removedSince>>
    /\ UNCHANGED notDet

DetNext ==
    \/ Tick
    \/ \E p \in Ports : Plug(p)
    \/ \E p \in Ports : Unplug(p)
    \/ \E p \in Ports : Blacklist(p)
    \/ DetPurge
    \/ DetDiff
    \/ DetApply
    \/ DetBuildFails
    \/ DetStop
    \/ DetExit

(***************************************************************************)
(* conveyor.task.Task and conveyor.event.Event, as the specification       *)
(* describes them (sections 4.1 and 4.2): the states, the transitions of   *)
(* end and cancel, and the synchronous firing of the stopped event in the  *)
(* calling thread.                                                         *)
(***************************************************************************)
Tasks == 1..MaxJobs

Terminal == {"ENDED", "FAILED", "STOPPED"}

Threads == {"worker", "stopper", "client"}

\* end(result): RUNNING -> ENDED; a no-op from a terminal state
TaskAfterEnd(st) == IF st = "RUNNING" THEN "ENDED" ELSE st

\* cancel(reason): PENDING/RUNNING -> STOPPED; a no-op from a terminal state
TaskAfterCancel(st) == IF st \in {"PENDING", "RUNNING"} THEN "STOPPED" ELSE st

\* the handlers a terminal transition of task t fires: the stopped event's
\* handlers, as attached at that moment, in registration order
FiredOn(t, before, after) == IF before # after THEN handlers[t] ELSE <<>>

TaskInit ==
    /\ taskState = [t \in Tasks |-> "PENDING"]
    /\ handlers = [t \in Tasks |-> <<>>]
    /\ fireQ = [th \in Threads |-> <<>>]

(***************************************************************************)
(* S3gPrinterThread and the stream print of S3gDriver                      *)
(***************************************************************************)
\* the attributes S3gPrinterThread.__init__ assigns (lines 113-124)
WorkerAttrs == {"_lock", "_condition", "_config", "_currenttask", "_fp", "_log",
                "_portname", "_printerid", "_profile", "_queue", "_server", "_stop"}

\* deque.append: push at the right end
AppendRight(q, t) == Append(q, t)

\* line 138: self._queue.appendleft(tuple_)
AppendLeft(q, t) == <<t>> \o q

\* line 152: self._queue.pop() takes the right end
PopRight(q) == q[Len(q)]

WkInit ==
    /\ w_queue = <<>>
    /\ w_stop = FALSE
    /\ w_currenttask = NoTask
    /\ w_lock = "free"
    /\ w_pc = "init"
    /\ w_tuple = NoTask
    /\ w_line = 0
    /\ w_extstop = {}
    /\ fpClosed = 0
    /\ evicted = 0
    /\ s_pc = "idle"
    /\ c_pc = "idle"
    /\ submitted = 0
    /\ popped = <<>>
    /\ escaped = FALSE
    /\ cancelledAt = NoEntry
    /\ returned = FALSE

\* lines 168-170: the worker's stoppedcallback, run by thread th:
\* `with self._condition: self._currenttask = None`
StoppedCallback(th) ==
    /\ w_lock = "free"
    /\ w_currenttask' = NoTask
    /\ UNCHANGED w_extstop

\* lines 234-235: the driver's stoppedcallback: writer.set_external_stop()
ExtStopCallback(th, t) ==
    /\ w_extstop' = w_extstop \cup {t}
    /\ UNCHANGED w_currenttask

\* Event.fire: thread th calls the next handler of the event it is firing
CallHandler(th) ==
    /\ fireQ[th] # <<>>
    /\ \/ Head(fireQ[th]).kind = "clear" /\ StoppedCallback(th)
       \/ Head(fireQ[th]).kind = "extstop" /\ ExtStopCallback(th, Head(fireQ[th]).task)
    /\ fireQ' = [fireQ EXCEPT ![th] = Tail(@)]

\* the thread is inside the firing of a stopped event: the worker in
\* task.end (line 278), the thread of stop() in task.cancel (line 186), the
\* cancelling thread in its task.cancel
Firing(th) ==
    \/ th = "worker" /\ w_pc = "ending"
    \/ th = "stopper" /\ s_pc = "firing"
    \/ th = "client" /\ c_pc = "firing"

\* Event.fire in thread th: the next stopped handler is called, in that thread
EventFires(th) ==
    /\ Firing(th)
    /\ CallHandler(th)
    /\ UNCHANGED <<taskState, handlers, w_queue, w_stop, w_lock, w_pc, w_tuple, w_line,
                   fpClosed, evicted, s_pc, c_pc, submitted, popped, escaped>>
    /\ UNCHANGED wkHist
    /\ UNCHANGED notWk

\* recipe.py lines 198-204 and s3g.py lines 132-139: the print task is started
\* and its running callback calls print(job, ..., task), which pushes the job
WPrint(t) ==
    /\ t = submitted + 1
    /\ t \in Tasks
    /\ w_lock = "free"
    /\ taskState' = [taskState EXCEPT ![t] = "RUNNING"]
    /\ w_queue' = AppendLeft(w_queue, t)
    /\ submitted' = t
    /\ UNCHANGED <<handlers, fireQ, w_stop, w_currenttask, w_lock, w_pc, w_tuple, w_line,
                   w_extstop, fpClosed, evicted, s_pc, c_pc, popped, escaped>>
    /\ UNCHANGED wkHist
    /\ UNCHANGED notWk

\* lines 143-146: the worker thread starts
WStart ==
    /\ w_pc = "init"
    /\ w_pc' = "loop"
    /\ UNCHANGED <<taskVars, w_queue, w_stop, w_currenttask, w_lock, w_tuple, w_line,
                   w_extstop, fpClosed, evicted, s_pc, c_pc, submitted, popped, escaped>>
    /\ UNCHANGED wkHist
    /\ UNCHANGED notWk

\* line 147: while not self._stop
WLoopTest ==
    /\ w_pc = "loop"
    /\ w_pc' = IF w_stop THEN "finally" ELSE "pop"
    /\ UNCHANGED <<taskVars, w_queue, w_stop, w_currenttask, w_lock, w_tuple, w_line,
                   w_extstop, fpClosed, evicted, s_pc, c_pc, submitted, popped, escaped>>
    /\ UNCHANGED wkHist
    /\ UNCHANGED notWk

\* lines 148-152: under the lock, pop the right end of the queue, or None
WPop ==
    /\ w_pc = "pop"
    /\ w_lock = "free"
    /\ IF Len(w_queue) = 0
       THEN /\ w_tuple' = NoTask
            /\ w_pc' = "idle"
            /\ UNCHANGED <<w_queue, popped>>
       ELSE /\ w_tuple' = PopRight(w_queue)
            /\ w_queue' = SubSeq(w_queue, 1, Len(w_queue) - 1)
            /\ popped' = Append(popped, PopRight(w_queue))
            /\ w_pc' = "setcur"
    /\ UNCHANGED <<taskVars, w_stop, w_currenttask, w_lock, w_line,
                   w_extstop, fpClosed, evicted, s_pc, c_pc, submitted, escaped>>
    /\ cancelledAt' = NoEntry
    /\ returned' = FALSE
    /\ UNCHANGED notWk

\* lines 154-159: the queue was empty; when the poll time has come (any time,
\* as far as the scheduler goes) the temperatures are read and pushed to the
\* registry, and reading them may raise
WIdlePoll ==
    /\ w_pc = "idle"
    /\ \E raises \in BOOLEAN :
          /\ w_pc' = IF raises THEN "except" ELSE "wait"
          /\ escaped' = (escaped \/ raises)
    /\ UNCHANGED <<taskVars, w_queue, w_stop, w_currenttask, w_lock, w_tuple, w_line,
                   w_extstop, fpClosed, evicted, s_pc, c_pc, submitted, popped>>
    /\ UNCHANGED wkHist
    /\ UNCHANGED notWk

\* lines 160-162: with self._condition: self._condition.wait(1.0); the lock
\* is taken, and released while waiting
WWait ==
    /\ w_pc = "wait"
    /\ w_lock = "free"
    /\ w_pc' = "waiting"
    /\ UNCHANGED <<taskVars, w_queue, w_stop, w_currenttask, w_lock, w_tuple, w_line,
                   w_extstop, fpClosed, evicted, s_pc, c_pc, submitted, popped, escaped>>
    /\ UNCHANGED wkHist
    /\ UNCHANGED notWk

\* lines 162-163: notified or timed out, wait() takes the lock again and the
\* with block releases it
WWake ==
    /\ w_pc = "waiting"
    /\ w_lock = "free"
    /\ w_pc' = "loop"
    /\ UNCHANGED <<taskVars, w_queue, w_stop, w_currenttask, w_lock, w_tuple, w_line,
                   w_extstop, fpClosed, evicted, s_pc, c_pc, submitted, popped, escaped>>
    /\ UNCHANGED wkHist
    /\ UNCHANGED notWk

\* lines 165-167: with self._condition: self._currenttask = task
WSetCurrent ==
    /\ w_pc = "setcur"
    /\ w_lock = "free"
    /\ w_currenttask' = w_tuple
    /\ w_pc' = "attach"
    /\ UNCHANGED <<taskVars, w_queue, w_stop, w_lock, w_tuple, w_line,
                   w_extstop, fpClosed, evicted, s_pc, c_pc, submitted, popped, escaped>>
    /\ UNCHANGED wkHist
    /\ UNCHANGED notWk

\* line 171: task.stoppedevent.attach(stoppedcallback)
WAttach ==
    /\ w_pc = "attach"
    /\ handlers' = [handlers EXCEPT ![w_tuple] =
                        Append(@, [kind |-> "clear", task |-> w_tuple])]
    /\ w_pc' = "drvattach"
    /\ UNCHANGED <<taskState, fireQ, w_queue, w_stop, w_currenttask, w_lock, w_tuple, w_line,
                   w_extstop, fpClosed, evicted, s_pc, c_pc, submitted, popped, escaped>>
    /\ UNCHANGED wkHist
    /\ UNCHANGED notWk

\* lines 172-175, 283 and 234-236: driver.print makes the writer and
\* _genericprint attaches its stoppedcallback
WDriverAttach ==
    /\ w_pc = "drvattach"
    /\ handlers' = [handlers EXCEPT ![w_tuple] =
                        Append(@, [kind |-> "extstop", task |-> w_tuple])]
    /\ w_pc' = "drvinit"
    /\ UNCHANGED <<taskState, fireQ, w_queue, w_stop, w_currenttask, w_lock, w_tuple, w_line,
                   w_extstop, fpClosed, evicted, s_pc, c_pc, submitted, popped, escaped>>
    /\ UNCHANGED wkHist
    /\ UNCHANGED notWk

\* lines 237-248: the parser is set up, the temperature is read and the
\* toolpath file is read into a list; reading either may raise
WDriverInit ==
    /\ w_pc = "drvinit"
    /\ \E raises \in BOOLEAN :
          /\ w_pc' = IF raises THEN "except" ELSE "line"
          /\ escaped' = (escaped \/ raises)
    /\ w_line' = 0
    /\ UNCHANGED <<taskVars, w_queue, w_stop, w_currenttask, w_lock, w_tuple,
                   w_extstop, fpClosed, evicted, s_pc, c_pc, submitted, popped>>
    /\ cancelledAt' = NoEntry
    /\ returned' = FALSE
    /\ UNCHANGED notWk

\* lines 249-251: the next line is taken; the loop is left when there is
\* none or when the task is no longer RUNNING
WLine ==
    /\ w_pc = "line"
    /\ w_pc' = IF w_line = GcodeLines \/ taskState[w_tuple] # "RUNNING"
               THEN "after" ELSE "dispatch"
    /\ UNCHANGED <<taskVars, w_queue, w_stop, w_currenttask, w_lock, w_tuple, w_line,
                   w_extstop, fpClosed, evicted, s_pc, c_pc, submitted, popped, escaped>>
    /\ UNCHANGED wkHist
    /\ UNCHANGED notWk

\* lines 252-276: the line is dispatched to the parser, which may raise
WDispatch ==
    /\ w_pc = "dispatch"
    /\ \E raises \in BOOLEAN :
          /\ w_pc' = IF raises THEN "except" ELSE "line"
          /\ escaped' = (escaped \/ raises)
          /\ w_line' = IF raises THEN w_line ELSE w_line + 1
    /\ UNCHANGED <<taskVars, w_queue, w_stop, w_currenttask, w_lock, w_tuple,
                   w_extstop, fpClosed, evicted, s_pc, c_pc, submitted, popped>>
    /\ UNCHANGED wkHist
    /\ UNCHANGED notWk

\* lines 277-278: if the task is not STOPPED, task.end(None); the worker
\* thread then fires the stopped event
WAfterLoop ==
    /\ w_pc = "after"
    /\ IF taskState[w_tuple] # "STOPPED"
       THEN /\ taskState' = [taskState EXCEPT ![w_tuple] = TaskAfterEnd(@)]
            /\ fireQ' = [fireQ EXCEPT !["worker"] =
                           FiredOn(w_tuple, taskState[w_tuple], TaskAfterEnd(taskState[w_tuple]))]
            /\ w_pc' = "ending"
       ELSE /\ w_pc' = "loop"
            /\ UNCHANGED <<taskState, fireQ>>
    /\ returned' = (taskState[w_tuple] = "STOPPED")
    /\ UNCHANGED cancelledAt
    /\ UNCHANGED <<handlers, w_queue, w_stop, w_currenttask, w_lock, w_tuple, w_line,
                   w_extstop, fpClosed, evicted, s_pc, c_pc, submitted, popped, escaped>>
    /\ UNCHANGED notWk

\* task.end returns, and driver.print returns to the loop
WEndReturns ==
    /\ w_pc = "ending"
    /\ fireQ["worker"] = <<>>
    /\ w_pc' = "loop"
    /\ UNCHANGED <<taskVars, w_queue, w_stop, w_currenttask, w_lock, w_tuple, w_line,
                   w_extstop, fpClosed, evicted, s_pc, c_pc, submitted, popped, escaped>>
    /\ returned' = TRUE
    /\ UNCHANGED cancelledAt
    /\ UNCHANGED notWk

\* the handler with the close after it instead of in a finally clause: the
\* exception raised in the handler skips the close
WExceptSkippingClose ==
    /\ w_pc = "except"
    /\ IF "_devicename" \in WorkerAttrs
       THEN evicted' = evicted + 1 /\ w_pc' = "finally"
       ELSE evicted' = evicted /\ w_pc' = "terminated"
    /\ UNCHANGED <<taskVars, w_queue, w_stop, w_currenttask, w_lock, w_tuple, w_line,
                   w_extstop, fpClosed, s_pc, c_pc, submitted, popped, escaped>>
    /\ UNCHANGED wkHist
    /\ UNCHANGED notWk

\* lines 176-178: the except clause logs and calls
\* self._server.evictprinter(self._devicename, self._fp); reading an
\* attribute that was never assigned raises AttributeError before the call
WExcept ==
    /\ w_pc = "except"
    /\ evicted' = IF "_devicename" \in WorkerAttrs THEN evicted + 1 ELSE evicted
    /\ w_pc' = "finally"
    /\ UNCHANGED <<taskVars, w_queue, w_stop, w_currenttask, w_lock, w_tuple, w_line,
                   w_extstop, fpClosed, s_pc, c_pc, submitted, popped, escaped>>
    /\ UNCHANGED wkHist
    /\ UNCHANGED notWk

\* lines 179-180: finally: self._fp.close(); the thread ends
WFinally ==
    /\ w_pc = "finally"
    /\ fpClosed' = fpClosed + 1
    /\ w_pc' = "terminated"
    /\ UNCHANGED <<taskVars, w_queue, w_stop, w_currenttask, w_lock, w_tuple, w_line,
                   w_extstop, evicted, s_pc, c_pc, submitted, popped, escaped>>
    /\ UNCHANGED wkHist
    /\ UNCHANGED notWk

\* the stream loop of task t is running (lines 249-276)
AtLine(t) == w_tuple = t /\ w_pc \in {"line", "dispatch"}

\* cancelledAt after a cancel of task t in state st
CancelledAtAfter(t, st) ==
    IF AtLine(t) /\ st # TaskAfterCancel(st) THEN w_line ELSE cancelledAt

\* lines 182-184: stop() takes the lock and sets the stop flag
StopBegin ==
    /\ s_pc = "idle"
    /\ w_lock = "free"
    /\ w_lock' = "stopper"
    /\ w_stop' = TRUE
    /\ s_pc' = "cancel"
    /\ UNCHANGED <<taskVars, w_queue, w_currenttask, w_pc, w_tuple, w_line,
                   w_extstop, fpClosed, evicted, c_pc, submitted, popped, escaped>>
    /\ UNCHANGED wkHist
    /\ UNCHANGED notWk

\* lines 185-186: holding the lock, cancel the current task if there is one;
\* cancel fires the stopped event in this thread
StopCancel ==
    /\ s_pc = "cancel"
    /\ IF w_currenttask # NoTask
       THEN /\ taskState' = [taskState EXCEPT ![w_currenttask] = TaskAfterCancel(@)]
            /\ fireQ' = [fireQ EXCEPT !["stopper"] =
                           FiredOn(w_currenttask, taskState[w_currenttask],
                                   TaskAfterCancel(taskState[w_currenttask]))]
            /\ cancelledAt' = CancelledAtAfter(w_currenttask, taskState[w_currenttask])
       ELSE UNCHANGED <<taskState, fireQ, cancelledAt>>
    /\ UNCHANGED returned
    /\ s_pc' = "firing"
    /\ UNCHANGED <<handlers, w_queue, w_stop, w_currenttask, w_lock, w_pc, w_tuple, w_line,
                   w_extstop, fpClosed, evicted, c_pc, submitted, popped, escaped>>
    /\ UNCHANGED notWk

\* line 187: notify_all, and the with block releases the lock; stop() returns
StopReturns ==
    /\ s_pc = "firing"
    /\ fireQ["stopper"] = <<>>
    /\ w_lock' = "free"
    /\ s_pc' = "done"
    /\ UNCHANGED <<taskVars, w_queue, w_stop, w_currenttask, w_pc, w_tuple, w_line,
                   w_extstop, fpClosed, evicted, c_pc, submitted, popped, escaped>>
    /\ UNCHANGED wkHist
    /\ UNCHANGED notWk

\* another thread (the owner of the process) cancels a running print task
ClientCancel(t) ==
    /\ c_pc = "idle"
    /\ taskState[t] = "RUNNING"
    /\ taskState' = [taskState EXCEPT ![t] = TaskAfterCancel(@)]
    /\ fireQ' = [fireQ EXCEPT !["client"] =
                    FiredOn(t, taskState[t], TaskAfterCancel(taskState[t]))]
    /\ c_pc' = "firing"
    /\ UNCHANGED <<handlers, w_queue, w_stop, w_currenttask, w_lock, w_pc, w_tuple, w_line,
                   w_extstop, fpClosed, evicted, s_pc, submitted, popped, escaped>>
    /\ cancelledAt' = CancelledAtAfter(t, taskState[t])
    /\ UNCHANGED returned
    /\ UNCHANGED notWk

\* that cancel returns
ClientReturns ==
    /\ c_pc = "firing"
    /\ fireQ["client"] = <<>>
    /\ c_pc' = "idle"
    /\ UNCHANGED <<taskVars, w_queue, w_stop, w_currenttask, w_lock, w_pc, w_tuple, w_line,
                   w_extstop, fpClosed, evicted, s_pc, submitted, popped, escaped>>
    /\ UNCHANGED wkHist
    /\ UNCHANGED notWk

WkNext ==
    \/ \E t \in Tasks : WPrint(t)
    \/ WStart
    \/ WLoopTest
    \/ WPop
    \/ WIdlePoll
    \/ WWait
    \/ WWake
    \/ WSetCurrent
    \/ WAttach
    \/ WDriverAttach
    \/ WDriverInit
    \/ WLine
    \/ WDispatch
    \/ WAfterLoop
    \/ \E th \in Threads : EventFires(th)
    \/ WEndReturns
    \/ WExcept
    \/ WFinally
    \/ StopBegin
    \/ StopCancel
    \/ StopReturns
    \/ \E t \in Tasks : ClientCancel(t)
    \/ ClientReturns

(***************************************************************************)
(* The recipes of conveyor/recipe.py.  A path is named after the local     *)
(* variable that holds it; "job.path", "stl_0_path" and "stl_1_path" are   *)
(* the inputs and "OUT" is the outputpath the caller passes to printtofile *)
(* and slice.  Each with tempfile.NamedTemporaryFile(...) block allocates  *)
(* a fresh name and leaves no file behind.                                 *)
(***************************************************************************)
Kinds == {"gcode", "stl", "dual"}

Modes == {"print", "printtofile", "slice"}

\* a child task of a pipeline: the stage, the paths it reads, the paths it writes
Stage(name, inp, out) == [stage |-> name, inp |-> inp, out |-> out]

\* a wrap stage that reads a fresh processed path whether or not the
\* post-process stage was built
ProcessedAlwaysFresh(procs, prior) == "processed_gcodepath"

\* lines 353-357 (and 393-397, 435-439, 525-529, 635-639): the path the wrap
\* stage reads: a fresh one when there are processors, else the prior output
Processed(procs, prior) == IF procs THEN "processed_gcodepath" ELSE prior

\* lines 358-360: the post-process stage, present when there are processors
ProcessorStage(procs, prior) ==
    IF procs THEN <<Stage("gcodeprocessor", <<prior>>, {"processed_gcodepath"})>> ELSE <<>>

\* lines 293-308: _GcodeRecipe.print (it attaches no process_endcallback)
GcodePrint ==
    [ tasks   |-> << Stage("wrap", <<"job.path">>, {"outputpath"}),
                     Stage("print", <<"outputpath">>, {}) >>,
      alloc   |-> {"outputpath"},
      cleanup |-> <<>>,
      endhandler |-> FALSE ]

\* lines 311-332: _GcodeRecipe.printtofile
GcodePrinttofile ==
    [ tasks   |-> << Stage("wrap", <<"job.path">>, {"start_end_path"}),
                     Stage("printtofile", <<"start_end_path">>, {"OUT"}),
                     Stage("verify", <<"OUT">>, {}) >>,
      alloc   |-> {"start_end_path"},
      cleanup |-> <<"start_end_path">>,
      endhandler |-> TRUE ]

\* lines 373-376 (and 416-419): process_endcallback of _StlRecipe.print and
\* _StlRecipe.printtofile
StlCleanup(procs) ==
    <<"gcodepath">> \o
    (IF "gcodepath" # Processed(procs, "gcodepath")
     THEN <<Processed(procs, "gcodepath")>> ELSE <<>>)

\* lines 340-379: _StlRecipe.print
StlPrint(procs) ==
    [ tasks   |-> << Stage("slice", <<"job.path">>, {"gcodepath"}) >>
                  \o ProcessorStage(procs, "gcodepath")
                  \o << Stage("wrap", <<Processed(procs, "gcodepath")>>, {"outputpath"}),
                        Stage("print", <<"outputpath">>, {}) >>,
      alloc   |-> {"gcodepath", Processed(procs, "gcodepath"), "outputpath"},
      cleanup |-> StlCleanup(procs),
      endhandler |-> TRUE ]

\* lines 381-422: _StlRecipe.printtofile
StlPrinttofile(procs) ==
    [ tasks   |-> << Stage("slice", <<"job.path">>, {"gcodepath"}) >>
                  \o ProcessorStage(procs, "gcodepath")
                  \o << Stage("wrap", <<Processed(procs, "gcodepath")>>, {"start_end_path"}),
                        Stage("printtofile", <<"start_end_path">>, {"OUT"}),
                        Stage("verify", <<"OUT">>, {}) >>,
      alloc   |-> {"gcodepath", Processed(procs, "gcodepath"), "start_end_path"},
      cleanup |-> StlCleanup(procs),
      endhandler |-> TRUE ]

\* lines 424-457: _StlRecipe.slice
StlSlice(procs) ==
    [ tasks   |-> << Stage("slice", <<"job.path">>, {"gcodepath"}) >>
                  \o ProcessorStage(procs, "gcodepath")
                  \o << Stage("wrap", <<Processed(procs, "gcodepath")>>, {"OUT"}) >>,
      alloc   |-> {"gcodepath", Processed(procs, "gcodepath")},
      cleanup |-> IF "gcodepath" # "OUT" THEN <<"gcodepath">> ELSE <<>>,
      endhandler |-> TRUE ]

\* lines 496-521 (and 558-582, 607-631): the two slices and the weave of
\* _DualThingRecipe
DualHead ==
    << Stage("slice0", <<"stl_0_path">>, {"gcode_0_path"}),
       Stage("slice1", <<"stl_1_path">>, {"gcode_1_path"}),
       Stage("dualstrusion", <<"gcode_0_path", "gcode_1_path">>, {"dualstrusion_path"}) >>

\* lines 494-554: _DualThingRecipe.printtofile
DualPrinttofile(procs) ==
    [ tasks   |-> DualHead
                  \o ProcessorStage(procs, "dualstrusion_path")
                  \o << Stage("wrap", <<Processed(procs, "dualstrusion_path")>>,
                              {"start_end_path"}),
                        Stage("printtofile", <<"start_end_path">>, {"OUT"}),
                        Stage("verify", <<"OUT">>, {}) >>,
      alloc   |-> {"gcode_0_path", "gcode_1_path", "dualstrusion_path",
                   Processed(procs, "dualstrusion_path"), "start_end_path"},
      cleanup |-> <<"gcode_0_path", "gcode_1_path", Processed(procs, "dualstrusion_path")>>,
      endhandler |-> TRUE ]

\* lines 556-602: _DualThingRecipe.slice (it builds the post-process stage
\* whatever the processor list is)
DualSlice(procs) ==
    [ tasks   |-> DualHead
                  \o << Stage("gcodeprocessor", <<"dualstrusion_path">>, {"dual_path"}),
                        Stage("wrap", <<"dual_path">>, {"OUT"}) >>,
      alloc   |-> {"gcode_0_path", "gcode_1_path", "dualstrusion_path", "dual_path"},
      cleanup |-> <<"gcode_0_path", "gcode_1_path", "dualstrusion_path">>,
      endhandler |-> TRUE ]

\* lines 604-660: _DualThingRecipe.print
DualPrint(procs) ==
    [ tasks   |-> DualHead
                  \o ProcessorStage(procs, "dualstrusion_path")
                  \o << Stage("wrap", <<Processed(procs, "dualstrusion_path")>>,
                              {"outputpath"}),
                        Stage("print", <<"outputpath">>, {}) >>,
      alloc   |-> {"gcode_0_path", "gcode_1_path", "dualstrusion_path",
                   Processed(procs, "dualstrusion_path"), "outputpath"},
      cleanup |-> <<"gcode_0_path", "gcode_1_path", "dualstrusion_path",
                    Processed(procs, "dualstrusion_path")>>,
      endhandler |-> TRUE ]

\* the recipe classes and their methods; _GcodeRecipe has no slice
\* (Recipe.slice, lines 284-285, raises NotImplementedError)
Supported(kind, mode) == ~(kind = "gcode" /\ mode = "slice")

Plan(kind, mode, procs) ==
    CASE kind = "gcode" /\ mode = "print"       -> GcodePrint
      [] kind = "gcode" /\ mode = "printtofile" -> GcodePrinttofile
      [] kind = "stl"   /\ mode = "print"       -> StlPrint(procs)
      [] kind = "stl"   /\ mode = "printtofile" -> StlPrinttofile(procs)
      [] kind = "stl"   /\ mode = "slice"       -> StlSlice(procs)
      [] kind = "dual"  /\ mode = "print"       -> DualPrint(procs)
      [] kind = "dual"  /\ mode = "printtofile" -> DualPrinttofile(procs)
      [] kind = "dual"  /\ mode = "slice"       -> DualSlice(procs)

\* the input files of a job of the kind
Inputs(kind) == IF kind = "dual" THEN {"stl_0_path", "stl_1_path"} ELSE {"job.path"}

NoPlan == [tasks |-> <<>>, alloc |-> {}, cleanup |-> <<>>, endhandler |-> FALSE]

\* process_endcallback: os.unlink each path in order; unlinking a path that
\* does not exist raises OSError, which ends the callback
RECURSIVE Unlink(_, _, _)
Unlink(paths, fs, calls) ==
    IF paths = <<>> THEN [files |-> fs, calls |-> calls]
    ELSE IF Head(paths) \in fs
         THEN Unlink(Tail(paths), fs \ {Head(paths)}, Append(calls, Head(paths)))
         ELSE [files |-> fs, calls |-> Append(calls, Head(paths))]

RcInit ==
    /\ r_kind = "none"
    /\ r_mode = "none"
    /\ r_procs = FALSE
    /\ r_plan = NoPlan
    /\ p_state = "NONE"
    /\ c_state = <<>>
    /\ files = {}
    /\ cleanupRuns = 0
    /\ unlinkCalls = <<>>
    /\ raisedIn = 0
    /\ escapedIn = 0
    /\ c_log = <<>>
    /\ c_cause = <<>>
    /\ p_cause = "None"

\* RecipeManager.getrecipe and one of print / printtofile / slice: the
\* pipeline is built, the handler is attached to process.endevent
Build(kind, mode, procs) ==
    /\ p_state = "NONE"
    /\ Supported(kind, mode)
    /\ r_kind' = kind
    /\ r_mode' = mode
    /\ r_procs' = procs
    /\ r_plan' = Plan(kind, mode, procs)
    /\ p_state' = "PENDING"
    /\ c_state' = [i \in 1..Len(Plan(kind, mode, procs).tasks) |-> "PENDING"]
    /\ c_cause' = [i \in 1..Len(Plan(kind, mode, procs).tasks) |-> "None"]
    /\ files' = Inputs(kind)
    /\ UNCHANGED <<cleanupRuns, unlinkCalls, raisedIn, escapedIn, c_log, p_cause>>
    /\ UNCHANGED notRc

\* the index of the child that is running, 0 if none
Current == IF \E i \in DOMAIN c_state : c_state[i] = "RUNNING"
           THEN CHOOSE i \in DOMAIN c_state : c_state[i] = "RUNNING"
           ELSE 0

\* tasksequence (specification 4.3): start() starts the first child
ProcStart ==
    /\ p_state = "PENDING"
    /\ p_state' = "RUNNING"
    /\ c_state' = [c_state EXCEPT ![1] = "RUNNING"]
    /\ c_log' = Append(c_log, <<"running", 1>>)
    /\ UNCHANGED <<r_kind, r_mode, r_procs, r_plan, files, cleanupRuns, unlinkCalls,
                   raisedIn, escapedIn, c_cause, p_cause>>
    /\ UNCHANGED notRc

ProcOnChildStoppedAlways(p, child) == TaskAfterCancel(p)

\* the handler of the process for a child's stopped event: the process is
\* STOPPED when the child was cancelled; the stopped event a child fires
\* after its end or its fail leaves the process as it is
ProcOnChildStopped(p, child) == IF child = "STOPPED" THEN TaskAfterCancel(p) ELSE p

\* the running child writes its output and ends, firing end and then stopped;
\* on end the next child is started, or, after the last child, the process
\* ends and fires its end event: the recipe's process_endcallback (attached
\* to process.endevent) unlinks its paths
ChildEnds ==
    /\ p_state = "RUNNING"
    /\ Current # 0
    /\ Current # escapedIn
    /\ LET i == Current
           written == files \cup r_plan.tasks[i].out
       IN IF i < Len(c_state)
          THEN /\ c_state' = [c_state EXCEPT ![i] = "ENDED", ![i + 1] = "RUNNING"]
               /\ c_log' = c_log \o <<<<"end", i>>, <<"running", i + 1>>, <<"stopped", i>>>>
               /\ p_state' = ProcOnChildStopped(p_state, "ENDED")
               /\ files' = written
               /\ UNCHANGED <<cleanupRuns, unlinkCalls>>
          ELSE /\ c_state' = [c_state EXCEPT ![i] = "ENDED"]
               /\ c_log' = c_log \o <<<<"end", i>>, <<"stopped", i>>>>
               /\ p_state' = ProcOnChildStopped("ENDED", "ENDED")
               /\ cleanupRuns' = IF r_plan.endhandler THEN cleanupRuns + 1 ELSE cleanupRuns
               /\ files' = Unlink(r_plan.cleanup, written, <<>>).files
               /\ unlinkCalls' = Unlink(r_plan.cleanup, written, <<>>).calls
    /\ UNCHANGED <<r_kind, r_mode, r_procs, r_plan, raisedIn, escapedIn, c_cause, p_cause>>
    /\ UNCHANGED notRc

ChildFailsNextStarted(cause) ==
    /\ p_state = "RUNNING"
    /\ Current # 0
    /\ Current # escapedIn
    /\ c_state' = [i \in DOMAIN c_state |->
                      IF i = Current THEN "FAILED"
                      ELSE IF i = Current + 1 THEN "RUNNING" ELSE c_state[i]]
    /\ c_cause' = [c_cause EXCEPT ![Current] = cause]
    /\ c_log' = c_log \o <<<<"fail", Current>>, <<"stopped", Current>>>>
    /\ p_state' = IF Current = Len(c_state) THEN "FAILED" ELSE p_state
    /\ p_cause' = IF Current = Len(c_state) THEN cause ELSE p_cause
    /\ \E wrote \in BOOLEAN :
          files' = IF wrote THEN files \cup r_plan.tasks[Current].out ELSE files
    /\ UNCHANGED <<r_kind, r_mode, r_procs, r_plan, cleanupRuns, unlinkCalls,
                   raisedIn, escapedIn>>
    /\ UNCHANGED notRc

\* the running child fails with the cause, having written its output or not,
\* and fires fail and then stopped; the process fails with the same cause,
\* starts no further child and fires its fail and stopped events, to which
\* the recipes attach nothing
ChildFails(cause) ==
    /\ p_state = "RUNNING"
    /\ Current # 0
    /\ Current # escapedIn
    /\ c_state' = [c_state EXCEPT ![Current] = "FAILED"]
    /\ c_cause' = [c_cause EXCEPT ![Current] = cause]
    /\ c_log' = c_log \o <<<<"fail", Current>>, <<"stopped", Current>>>>
    /\ p_state' = ProcOnChildStopped("FAILED", "FAILED")
    /\ p_cause' = cause
    /\ \E wrote \in BOOLEAN :
          files' = IF wrote THEN files \cup r_plan.tasks[Current].out ELSE files
    /\ UNCHANGED <<r_kind, r_mode, r_procs, r_plan, cleanupRuns, unlinkCalls,
                   raisedIn, escapedIn>>
    /\ UNCHANGED notRc

\* the exceptions a runningcallback body can raise: the file reader's stream
\* error, and any other (an IOError of open(), a TypeError of a call)
Exceptions == {"S3gStreamError", "IOError"}

\* the stages whose body is self._server.slice (lines 142-146)
SliceStages == {"slice", "slice0", "slice1"}

\* the except clauses of the runningcallbacks: `except Exception` in the
\* post-process (165), weave (188) and wrap (269) bodies, `except
\* S3gStreamError` in the verify body (245), none in the slice (142-146),
\* print (198-204) and print-to-file (210-215) bodies
Catches(stage, exc) ==
    \/ stage \in {"gcodeprocessor", "dualstrusion", "wrap"}
    \/ stage = "verify" /\ exc = "S3gStreamError"

\* the body of the running child raises exc.  A caught exception becomes
\* task.fail and the process fails; an uncaught one leaves the callback with
\* the task as it is, and nothing is left to end or fail the task.  A slicer
\* may have failed the task itself before it re-raised (failedFirst:
\* toolpath/miraclegrue.py lines 81-84).
BodyRaises(exc, failedFirst) ==
    /\ p_state = "RUNNING"
    /\ Current # 0
    /\ Current # escapedIn
    /\ failedFirst => r_plan.tasks[Current].stage \in SliceStages
    /\ LET caught == Catches(r_plan.tasks[Current].stage, exc)
       IN /\ raisedIn' = Current
          /\ escapedIn' = IF caught THEN escapedIn ELSE Current
          /\ IF caught \/ failedFirst
             THEN /\ c_state' = [c_state EXCEPT ![Current] = "FAILED"]
                  /\ c_cause' = [c_cause EXCEPT ![Current] = exc]
                  /\ c_log' = c_log \o <<<<"fail", Current>>, <<"stopped", Current>>>>
                  /\ p_state' = ProcOnChildStopped("FAILED", "FAILED")
                  /\ p_cause' = exc
             ELSE UNCHANGED <<c_state, p_state, c_log, c_cause, p_cause>>
    /\ \E wrote \in BOOLEAN :
          files' = IF wrote THEN files \cup r_plan.tasks[Current].out ELSE files
    /\ UNCHANGED <<r_kind, r_mode, r_procs, r_plan, cleanupRuns, unlinkCalls>>
    /\ UNCHANGED notRc

\* the process is cancelled: the running child is cancelled and the process
\* is STOPPED, firing its stopped event, to which the recipes attach nothing
ProcCancel ==
    /\ p_state \in {"PENDING", "RUNNING"}
    /\ p_state' = "STOPPED"
    /\ c_state' = [i \in DOMAIN c_state |->
                      IF c_state[i] = "RUNNING" THEN "STOPPED" ELSE c_state[i]]
    /\ c_log' = c_log \o <<<<"cancel", 0>>>>
                      \o (IF Current # 0 THEN <<<<"stopped", Current>>>> ELSE <<>>)
    /\ UNCHANGED <<r_kind, r_mode, r_procs, r_plan, files, cleanupRuns, unlinkCalls,
                   raisedIn, escapedIn, c_cause, p_cause>>
    /\ UNCHANGED notRc

\* the running child is cancelled from outside: it is STOPPED and fires
\* stopped, on which the process is STOPPED
ChildCancel ==
    /\ p_state = "RUNNING"
    /\ Current # 0
    /\ c_state' = [c_state EXCEPT ![Current] = TaskAfterCancel(@)]
    /\ c_log' = Append(c_log, <<"stopped", Current>>)
    /\ p_state' = ProcOnChildStopped(p_state, "STOPPED")
    /\ UNCHANGED <<r_kind, r_mode, r_procs, r_plan, files, cleanupRuns, unlinkCalls,
                   raisedIn, escapedIn, c_cause, p_cause>>
    /\ UNCHANGED notRc

RcNext ==
    \/ \E kind \in Kinds, mode \in Modes, procs \in BOOLEAN : Build(kind, mode, procs)
    \/ ProcStart
    \/ ChildEnds
    \/ \E cause \in Exceptions : ChildFails(cause)
    \/ \E exc \in Exceptions, failedFirst \in BOOLEAN : BodyRaises(exc, failedFirst)
    \/ ProcCancel
    \/ ChildCancel

(***************************************************************************)
(* S3gDriver._genericprint (s3g.py lines 231-278), on its own: one call,   *)
(* its task, and a thread that may cancel the task.  A line is its raw     *)
(* length; the clock readings are whatever time.time() returns, never      *)
(* decreasing.                                                             *)
(***************************************************************************)
\* the toolpaths: up to MaxLines lines, each of a length in LineLengths
Toolpaths == UNION {[1..n -> LineLengths] : n \in 0..MaxLines}

\* lines 223-229: _countgcodelines.  `for data in enumerate(gcodelines)`
\* binds data to the pair (index, line), so len(data) is the pair's length
RECURSIVE CountFrom(_, _, _, _)
CountFrom(gcodelines, i, lines, bytes) ==
    IF i > Len(gcodelines) THEN [lines |-> lines, bytes |-> bytes]
    ELSE LET data == <<i - 1, gcodelines[i]>>
         IN CountFrom(gcodelines, i + 1, lines + 1, bytes + Len(data))

CountGcodeLines(gcodelines) == CountFrom(gcodelines, 1, 0, 0)

\* lines 266-275: the progress record, with the temperature when polling
Progress(currentline, totallines, currentbyte, totalbytes, polltemperature, temperature) ==
    IF polltemperature
    THEN [currentline |-> currentline, totallines |-> totallines,
          currentbyte |-> currentbyte, totalbytes |-> totalbytes,
          temperature |-> temperature]
    ELSE [currentline |-> currentline, totallines |-> totallines,
          currentbyte |-> currentbyte, totalbytes |-> totalbytes]

\* line 259: the temperature is polled at this line
TemperatureDue(polltemperature, polltime, t) == polltemperature /\ polltime <= t

\* lines 259-260: polltime after the temperature poll of a line read at time t
AfterTemperaturePoll(polltemperature, polltime, t) ==
    IF TemperatureDue(polltemperature, polltime, t) THEN t + TemperatureInterval ELSE polltime

GpInit ==
    /\ g_pc = "idle"
    /\ g_polltemperature = FALSE
    /\ g_gcodelines = <<>>
    /\ g_totallines = 0
    /\ g_totalbytes = 0
    /\ g_currentline = 0
    /\ g_currentbyte = 0
    /\ g_now = 0
    /\ g_polltime = 0
    /\ g_temperature = NoEntry
    /\ g_state = "PENDING"
    /\ g_extstop = FALSE
    /\ g_beats = <<>>
    /\ g_lastbeat = 0

\* lines 234-248: the task is RUNNING when its body calls _genericprint; the
\* stopped handler is attached, the clock is read, the temperature is read
\* when polling, the toolpath is read and counted
GStart(gcodelines, polltemperature, t) ==
    /\ g_pc = "idle"
    /\ g_pc' = "check"
    /\ g_state' = "RUNNING"
    /\ g_polltemperature' = polltemperature
    /\ g_now' = t
    /\ g_polltime' = t + Pollinterval
    /\ g_temperature' = IF polltemperature THEN t ELSE NoEntry
    /\ g_gcodelines' = gcodelines
    /\ g_totallines' = CountGcodeLines(gcodelines).lines
    /\ g_totalbytes' = CountGcodeLines(gcodelines).bytes
    /\ g_currentline' = 0
    /\ g_currentbyte' = 0
    /\ g_lastbeat' = t
    /\ UNCHANGED <<g_extstop, g_beats>>
    /\ UNCHANGED notGp

\* lines 249-251: the next line is taken, and the loop is left when there is
\* none or when the task is no longer RUNNING
GCheck ==
    /\ g_pc = "check"
    /\ g_pc' = IF g_currentline = Len(g_gcodelines) \/ g_state # "RUNNING"
               THEN "after" ELSE "body"
    /\ UNCHANGED <<g_polltemperature, g_gcodelines, g_totallines, g_totalbytes,
                   g_currentline, g_currentbyte, g_now, g_polltime, g_temperature,
                   g_state, g_extstop, g_beats, g_lastbeat>>
    /\ UNCHANGED notGp

\* lines 256-276: the line is counted, the clock is read (t), the temperature
\* is polled when due, the line is dispatched to the parser (which may
\* raise), and the heartbeat is emitted when polltime has come
GLine(t, raises) ==
    /\ g_pc = "body"
    /\ t >= g_now
    /\ LET data == g_gcodelines[g_currentline + 1]
           currentbyte == g_currentbyte + data
           polled == TemperatureDue(g_polltemperature, g_polltime, t)
           polltime == AfterTemperaturePoll(g_polltemperature, g_polltime, t)
           temperature == IF polled THEN t ELSE g_temperature
           progress == Progress(g_currentline, g_totallines, currentbyte, g_totalbytes,
                                g_polltemperature, temperature)
       IN /\ g_currentbyte' = currentbyte
          /\ g_now' = t
          /\ g_temperature' = temperature
          /\ IF raises
             THEN /\ g_pc' = "raised"
                  /\ g_polltime' = polltime
                  /\ UNCHANGED <<g_currentline, g_beats, g_lastbeat>>
             ELSE /\ g_pc' = "check"
                  /\ g_currentline' = g_currentline + 1
                  /\ IF polltime <= t
                     THEN /\ g_polltime' = t + Pollinterval
                          /\ g_beats' = Append(g_beats, progress)
                          /\ g_lastbeat' = t
                     ELSE /\ g_polltime' = polltime
                          /\ UNCHANGED <<g_beats, g_lastbeat>>
    /\ UNCHANGED <<g_polltemperature, g_gcodelines, g_totallines, g_totalbytes, g_state,
                   g_extstop>>
    /\ UNCHANGED notGp

\* lines 277-278: if the task is not STOPPED, task.end(None)
GAfter ==
    /\ g_pc = "after"
    /\ g_pc' = "done"
    /\ g_state' = IF g_state # "STOPPED" THEN TaskAfterEnd(g_state) ELSE g_state
    /\ UNCHANGED <<g_polltemperature, g_gcodelines, g_totallines, g_totalbytes,
                   g_currentline, g_currentbyte, g_now, g_polltime, g_temperature,
                   g_extstop, g_beats, g_lastbeat>>
    /\ UNCHANGED notGp

\* another thread cancels the task during the print: the task is STOPPED and
\* the stopped event calls the handler of lines 234-235
GCancel ==
    /\ g_pc \in {"check", "body", "after"}
    /\ g_state = "RUNNING"
    /\ g_state' = TaskAfterCancel(g_state)
    /\ g_extstop' = TRUE
    /\ UNCHANGED <<g_pc, g_polltemperature, g_gcodelines, g_totallines, g_totalbytes,
                   g_currentline, g_currentbyte, g_now, g_polltime, g_temperature,
                   g_beats, g_lastbeat>>
    /\ UNCHANGED notGp

GpNext ==
    \/ \E gcodelines \in Toolpaths, polltemperature \in BOOLEAN, t \in 0..1 :
          GStart(gcodelines, polltemperature, t)
    \/ GCheck
    \/ \E t \in 0..MaxClock, raises \in BOOLEAN : GLine(t, raises)
    \/ GAfter
    \/ GCancel

(***************************************************************************)
(* Recipe.verifys3gtask (recipe.py lines 220-249).  A dict is an object of *)
(* the heap; a Python name holds a reference to it.                        *)
(***************************************************************************)
\* the percentages the file reader can report
Percents == {0, 50, 100}

\* the one dict verifys3gtask creates (lines 227-230)
ProgressReport == "progressreport"

\* Task.lazy_heartbeat(new, old): fire heartbeat(new) if the two records
\* differ in any value, else nothing (specification 4.2)
LazyHeartbeat(new, old) == IF new # old THEN <<new>> ELSE <<>>

\* lines 232-235: update(percent).  oldprogressreport is bound to the object
\* progressreport names, the object's 'progress' is set, and lazy_heartbeat
\* gets the contents of the two names
Update(heap, percent) ==
    LET progressreport == ProgressReport
        oldprogressreport == progressreport
        after == [heap EXCEPT ![progressreport].progress = percent]
    IN [heap  |-> after,
        beats |-> LazyHeartbeat(after[progressreport], after[oldprogressreport])]

VfInit ==
    /\ v_pc = "idle"
    /\ v_heap = [o \in {ProgressReport} |-> [name |-> "verify", progress |-> 0]]
    /\ v_state = "PENDING"
    /\ v_result = "none"
    /\ v_beats = <<>>
    /\ v_reported = <<>>

\* the task is started: runningcallback opens the file (lines 238-242)
VStart ==
    /\ v_pc = "idle"
    /\ v_pc' = "reading"
    /\ v_state' = "RUNNING"
    /\ UNCHANGED <<v_heap, v_result, v_beats, v_reported>>
    /\ UNCHANGED notVf

\* line 243: reader.ReadFile(update) calls update(percent)
VUpdate(percent) ==
    /\ v_pc = "reading"
    /\ Len(v_reported) < MaxReports
    /\ v_heap' = Update(v_heap, percent).heap
    /\ v_beats' = v_beats \o Update(v_heap, percent).beats
    /\ v_reported' = Append(v_reported, percent)
    /\ UNCHANGED <<v_pc, v_state, v_result>>
    /\ UNCHANGED notVf

\* line 244: the reader parsed the file: task.end(True)
VEnd ==
    /\ v_pc = "reading"
    /\ v_pc' = "done"
    /\ v_state' = TaskAfterEnd(v_state)
    /\ v_result' = "True"
    /\ UNCHANGED <<v_heap, v_beats, v_reported>>
    /\ UNCHANGED notVf

\* lines 245-247: the reader raises; a stream error fails the task with its
\* message, any other exception leaves runningcallback
VRaises(exc) ==
    /\ v_pc = "reading"
    /\ IF Catches("verify", exc)
       THEN /\ v_pc' = "done"
            /\ v_state' = "FAILED"
            /\ v_result' = "message"
       ELSE /\ v_pc' = "raised"
            /\ UNCHANGED <<v_state, v_result>>
    /\ UNCHANGED <<v_heap, v_beats, v_reported>>
    /\ UNCHANGED notVf

VfNext ==
    \/ VStart
    \/ \E percent \in Percents : VUpdate(percent)
    \/ VEnd
    \/ \E exc \in Exceptions : VRaises(exc)

(***************************************************************************)
(* RecipeManager.getrecipe and its planners (recipe.py lines 49-114).  A   *)
(* path is the sequence of its characters.                                 *)
(***************************************************************************)
\* the job paths tried
JobPaths ==
    { <<"a", ".", "g", "c", "o", "d", "e">>,
      <<"a", ".", "G", "C", "O", "D", "E">>,
      <<"a", ".", "G", "c", "o", "d", "e">>,
      <<"a", ".", "s", "t", "l">>,
      <<"a", ".", "S", "T", "L">>,
      <<"a", ".", "s", "T", "l">>,
      <<"a", ".", "t", "h", "i", "n", "g">>,
      <<"a", ".", "T", "H", "I", "N", "G">>,
      <<"a", ".", "t", "h", "i", "n", "G">>,
      <<"a">>,
      <<"a", ".">>,
      <<"a", ".", "g", "c", "o">>,
      <<"a", ".", "o", "b", "j">>,
      <<".", "s", "t", "l">>,
      <<"a", ".", "s", "t", "l", "/", "b">>,
      <<"a", ".", "s", "t", "l", ".", "g", "c", "o", "d", "e">>,
      <<"a", ".", "t", "h", "i", "n", "g", ".", "S", "t", "l">>,
      <<"a", ".", "g", "c", "o", "d", "e", "s">> }

\* str.lower() on one character
Lower(c) ==
    CASE c = "C" -> "c" [] c = "D" -> "d" [] c = "E" -> "e" [] c = "G" -> "g"
      [] c = "H" -> "h" [] c = "I" -> "i" [] c = "L" -> "l" [] c = "N" -> "n"
      [] c = "O" -> "o" [] c = "S" -> "s" [] c = "T" -> "t" [] OTHER -> c

\* str.rfind: the last position of character c in p, 0 if there is none
RFind(p, c) ==
    IF \E i \in DOMAIN p : p[i] = c
    THEN CHOOSE i \in DOMAIN p : p[i] = c /\ \A j \in DOMAIN p : p[j] = c => j <= i
    ELSE 0

\* line 50: os.path.splitext(job.path)[1]: from the last dot of the last
\* component, unless only dots precede it in that component
SplitExt(p) ==
    LET sepIndex == RFind(p, "/")
        dotIndex == RFind(p, ".")
    IN IF dotIndex > sepIndex /\ \E k \in (sepIndex + 1)..(dotIndex - 1) : p[k] # "."
       THEN SubSeq(p, dotIndex, Len(p))
       ELSE <<>>

\* the extension compared as it is
ExtUnchanged(ext) == ext

\* lines 51, 53, 55: ext.lower()
ExtLower(ext) == [i \in DOMAIN ext |-> Lower(ext[i])]

\* the classes recipe.py defines (lines 663-684) and the error each stands
\* for; a name recipe.py never defines raises NameError when it is read
ErrorOf ==
    [ UnsupportedModelTypeException |-> "UNSUPPORTED_MODEL",
      MissingFileException          |-> "MISSING_FILE",
      NotFileException              |-> "NOT_FILE",
      InvalidThingException         |-> "INVALID_COMPOSITE" ]

Raise(planner, class) ==
    [planner |-> planner, recipe |-> "None", over |-> <<>>,
     raised |-> IF class \in DOMAIN ErrorOf THEN class ELSE "NameError"]

Return(planner, recipe, over) ==
    [planner |-> planner, recipe |-> recipe, over |-> over, raised |-> "None"]

\* lines 61-68: _getrecipe_gcode
GetRecipeGcode(fs) ==
    IF fs = "missing" THEN Raise("gcode", "MissingFileException")
    ELSE IF fs # "file" THEN Raise("gcode", "NotFileException")
    ELSE Return("gcode", "_GcodeRecipe", <<"job.path">>)

\* lines 70-77: _getrecipe_stl
GetRecipeStl(fs) ==
    IF fs = "missing" THEN Raise("stl", "MissingPathExceptoin")
    ELSE IF fs # "file" THEN Raise("stl", "NotFileException")
    ELSE Return("stl", "_StlRecipe", <<"job.path">>)

\* a planner that takes the first mesh whenever one mesh is there
ThingRecipeFirstMesh(meshes) ==
    IF meshes = {0, 1}
    THEN Return("thing", "_DualThingRecipe", <<"stl_0_path", "stl_1_path">>)
    ELSE IF meshes # {}
    THEN Return("thing", "_SingleThingRecipe", <<"stl_0_path">>)
    ELSE Raise("thing", "InvalidThingException")

\* lines 100-114: the recipe over the mesh files the splitter left
ThingRecipe(meshes) ==
    IF 0 \in meshes /\ 1 \in meshes
    THEN Return("thing", "_DualThingRecipe", <<"stl_0_path", "stl_1_path">>)
    ELSE IF 0 \in meshes
    THEN Return("thing", "_SingleThingRecipe", <<"stl_0_path">>)
    ELSE IF 1 \in meshes
    THEN Return("thing", "_SingleThingRecipe", <<"stl_1_path">>)
    ELSE Raise("thing", "InvalidThingException")

\* lines 79-114: _getrecipe_thing
GetRecipeThing(fs, code, meshes) ==
    IF fs = "missing" THEN Raise("thing", "MissingFileException")
    ELSE IF code # 0 THEN Raise("thing", "InvalidThingException")
    ELSE ThingRecipe(meshes)

\* lines 49-59: getrecipe
GetRecipe(path, fs, code, meshes) ==
    LET ext == SplitExt(path)
    IN IF <<".", "g", "c", "o", "d", "e">> = ExtLower(ext) THEN GetRecipeGcode(fs)
       ELSE IF <<".", "s", "t", "l">> = ExtLower(ext) THEN GetRecipeStl(fs)
       ELSE IF <<".", "t", "h", "i", "n", "g">> = ExtLower(ext)
            THEN GetRecipeThing(fs, code, meshes)
       ELSE Raise("none", "UnsupportedModelTypeException")

PlInit ==
    /\ pl_pc = "idle"
    /\ pl_path = <<>>
    /\ pl_fs = "missing"
    /\ pl_code = 0
    /\ pl_meshes = {}
    /\ pl_result = Return("none", "None", <<>>)

\* getrecipe(job) is called: job.path is `path`, which is `fs` on disk; the
\* splitter, if run, exits with `code` and leaves the mesh files `meshes`
GetRecipeCall(path, fs, code, meshes) ==
    /\ pl_pc = "idle"
    /\ pl_pc' = "done"
    /\ pl_path' = path
    /\ pl_fs' = fs
    /\ pl_code' = code
    /\ pl_meshes' = meshes
    /\ pl_result' = GetRecipe(path, fs, code, meshes)
    /\ UNCHANGED notPl

PlNext ==
    \E path \in JobPaths, fs \in {"missing", "file", "other"}, code \in {0, 1, 2},
       meshes \in SUBSET {0, 1} :
        GetRecipeCall(path, fs, code, meshes)

(***************************************************************************)
(* Recipe.getgcodeprocessors (recipe.py lines 124-136).  The job's         *)
(* gcodeprocessor is None or a list object; the method works on that       *)
(* object itself, so what it inserts and appends stays in the job.         *)
(***************************************************************************)
ProcessorNames == {"AnchorProcessor", "Skeinforge50Processor", "FanProcessor", "OtherProcessor"}

\* the lists without duplicates of at most MaxListLen names
ProcessorLists ==
    {l \in UNION {[1..n -> ProcessorNames] : n \in 0..MaxListLen} :
        \A a, b \in DOMAIN l : l[a] = l[b] => a = b}

\* the jobs and configurations
Jobs ==
    [ none    : BOOLEAN,
      list    : ProcessorLists,
      slicer  : {"SKEINFORGE", "MIRACLEGRUE"},
      path    : {"None", "set"},
      profile : {"Replicator2", "Replicator"} ]

\* x in l
Contains(l, x) == \E i \in DOMAIN l : l[i] = x

\* l.append(x) whether or not x is in l
AppendAlways(l, x) == Append(l, x)

\* lines 131-132 and 134-135: if x not in l: l.append(x)
AppendIfAbsent(l, x) == IF Contains(l, x) THEN l ELSE Append(l, x)

\* lines 129-130: if 'AnchorProcessor' not in l and path is None: l.insert(0, ...)
InsertAnchor(l, path) ==
    IF ~Contains(l, "AnchorProcessor") /\ path = "None"
    THEN <<"AnchorProcessor">> \o l ELSE l

\* lines 125-136: the list the method returns
Selected(job) ==
    LET gcodeprocessors == IF job.none THEN <<>> ELSE job.list
    IN IF job.slicer = "SKEINFORGE"
       THEN LET anchored == InsertAnchor(gcodeprocessors, job.path)
                legacy == AppendIfAbsent(anchored, "Skeinforge50Processor")
            IN IF job.profile = "Replicator2"
               THEN AppendIfAbsent(legacy, "FanProcessor")
               ELSE legacy
       ELSE gcodeprocessors

\* the job after the call: its list object holds what the call returned; a
\* job whose gcodeprocessor is None keeps None (the call made a new list)
JobAfter(job) == IF job.none THEN job ELSE [job EXCEPT !.list = Selected(job)]

JbInit ==
    /\ j_pc = "idle"
    /\ j_job = [none |-> TRUE, list |-> <<>>, slicer |-> "MIRACLEGRUE", path |-> "None",
                profile |-> "Replicator"]
    /\ j_results = <<>>
    /\ j_settings = {}
    /\ j_original = <<>>
    /\ j_submitted = [none |-> TRUE, list |-> <<>>, slicer |-> "MIRACLEGRUE",
                      path |-> "None", profile |-> "Replicator"]

\* a job is made (Recipe.__init__, lines 118-122)
NewJob(job) ==
    /\ j_pc = "idle"
    /\ job.none => job.list = <<>>
    /\ j_pc' = "ready"
    /\ j_job' = job
    /\ j_original' = job.list
    /\ j_submitted' = job
    /\ UNCHANGED <<j_results, j_settings>>
    /\ UNCHANGED notJb

\* getgcodeprocessors() is called for the job
GetGcodeProcessors ==
    /\ j_pc = "ready"
    /\ Len(j_results) < MaxCalls
    /\ j_results' = Append(j_results, Selected(j_job))
    /\ j_job' = JobAfter(j_job)
    /\ UNCHANGED <<j_pc, j_settings, j_original, j_submitted>>
    /\ UNCHANGED notJb

\* SlicerConfiguration.fromdict(job.slicer_settings.todict()): a new settings
\* object with the values of the job's (specification, dual-mesh slicing)
Clone(job) == [slicer |-> job.slicer, path |-> job.path]

\* lines 614-615 and 621-622 (and 504-505, 511-512, 565-566, 572-573): the
\* job's settings are cloned and the clone's extruder is set
PerExtruderSettings(extruder) ==
    /\ j_pc = "ready"
    /\ \A st \in j_settings : st.extruder # extruder
    /\ j_settings' = j_settings \cup
            {[slicer |-> Clone(j_job).slicer, path |-> Clone(j_job).path,
              extruder |-> extruder]}
    /\ UNCHANGED <<j_pc, j_job, j_results, j_original, j_submitted>>
    /\ UNCHANGED notJb

JbNext ==
    \/ \E job \in Jobs : NewJob(job)
    \/ GetGcodeProcessors
    \/ \E extruder \in {"0", "1"} : PerExtruderSettings(extruder)

(***************************************************************************)
(* Address.parse (address.py lines 73-177).  A string is a sequence of     *)
(* parts; a part is one character, except that "pipe" and "tcp" stand for  *)
(* those words (no other parts spell them).                                *)
(***************************************************************************)
AddrParts == {"pipe", "tcp", ":", "h", "x", "8", "-", " "}

AddrStrings == UNION {[1..n -> AddrParts] : n \in 0..MaxAddrLen}

\* the first position of c in s, 0 if there is none
Find(s, c) ==
    IF \E i \in DOMAIN s : s[i] = c
    THEN CHOOSE i \in DOMAIN s : s[i] = c /\ \A j \in DOMAIN s : s[j] = c => i <= j
    ELSE 0

\* s.split(':'): every colon splits
RECURSIVE SplitAll(_)
SplitAll(s) ==
    IF Find(s, ":") = 0 THEN <<s>>
    ELSE <<SubSeq(s, 1, Find(s, ":") - 1)>> \o SplitAll(SubSeq(s, Find(s, ":") + 1, Len(s)))

\* s.split(':', 1): the first colon splits, if there is one
Split1(s) ==
    IF Find(s, ":") = 0 THEN <<s>>
    ELSE <<SubSeq(s, 1, Find(s, ":") - 1), SubSeq(s, Find(s, ":") + 1, Len(s))>>

\* str.strip() of blanks
RECURSIVE Strip(_)
Strip(s) ==
    IF s # <<>> /\ Head(s) = " " THEN Strip(Tail(s))
    ELSE IF s # <<>> /\ s[Len(s)] = " " THEN Strip(SubSeq(s, 1, Len(s) - 1))
    ELSE s

DigitValue == [d \in {"8"} |-> 8]

\* the value of a nonempty string of decimal digits
RECURSIVE Decimal(_)
Decimal(s) ==
    IF Len(s) = 1 THEN DigitValue[s[1]]
    ELSE 10 * Decimal(SubSeq(s, 1, Len(s) - 1)) + DigitValue[s[Len(s)]]

\* int(x): blanks around are dropped, a sign may lead, digits must follow;
\* anything else raises ValueError
IntOf(x) ==
    LET t == Strip(x)
        signed == t # <<>> /\ Head(t) \in {"-"}
        digits == IF signed THEN Tail(t) ELSE t
    IN IF digits # <<>> /\ \A i \in DOMAIN digits : digits[i] \in DOMAIN DigitValue
       THEN [ok |-> TRUE, value |-> IF signed THEN 0 - Decimal(digits) ELSE Decimal(digits)]
       ELSE [ok |-> FALSE, value |-> 0]

AddrError(class, port) ==
    [kind |-> class, path |-> <<>>, host |-> <<>>, port |-> 0, badport |-> port]

\* lines 88-104: _AbstractPipeAddress._parse
PipeParse(s, split) ==
    IF Len(split) # 2 THEN AddrError("MissingPathException", <<>>)
    ELSE IF Len(split[2]) = 0 THEN AddrError("MissingPathException", <<>>)
    ELSE [kind |-> "PipeAddress", path |-> split[2], host |-> <<>>, port |-> 0,
          badport |-> <<>>]

\* lines 157-177: TcpAddress._parse
TcpParse(s, split) ==
    IF Len(split) # 2 THEN AddrError("MissingHostException", <<>>)
    ELSE LET hostport == Split1(split[2])
         IN IF Len(hostport) # 2 THEN AddrError("MissingPortException", <<>>)
            ELSE IF Len(hostport[1]) = 0 THEN AddrError("MissingHostException", <<>>)
            ELSE IF ~IntOf(hostport[2]).ok
                 THEN AddrError("InvalidPortException", hostport[2])
            ELSE [kind |-> "TcpAddress", path |-> <<>>, host |-> hostport[1],
                  port |-> IntOf(hostport[2]).value, badport |-> <<>>]

\* lines 73-83: Address.parse
Parse(s) ==
    LET split == Split1(s)
    IN IF split[1] = <<"pipe">> THEN PipeParse(s, split)
       ELSE IF split[1] = <<"tcp">> THEN TcpParse(s, split)
       ELSE AddrError("UnknownProtocolException", <<>>)

AdInit ==
    /\ a_pc = "idle"
    /\ a_s = <<>>
    /\ a_result = AddrError("None", <<>>)

\* Address.parse(s) is called
ParseCall(s) ==
    /\ a_pc = "idle"
    /\ a_pc' = "done"
    /\ a_s' = s
    /\ a_result' = Parse(s)
    /\ UNCHANGED notAd

\* the strings a call may pass: any, while no call has been made
Arguments == IF a_pc = "idle" THEN AddrStrings ELSE {}

AdNext == \E s \in Arguments : ParseCall(s)

(***************************************************************************)
(* The Task state machine and the calls made on a task by any thread and   *)
(* by two task bodies: the stream print (s3g.py lines 277-278) and the     *)
(* slicer (miraclegrue.py lines 81-86).                                    *)
(***************************************************************************)
Bodies == {"print", "slice"}

\* start(): PENDING -> RUNNING
TaskAfterStart(st) == IF st = "PENDING" THEN "RUNNING" ELSE st

TaskAfterFailUnguarded(st) == "FAILED"

\* fail(cause): RUNNING -> FAILED
TaskAfterFail(st) == IF st = "RUNNING" THEN "FAILED" ELSE st

\* the state after a call of the method
TaskAfter(method, st) ==
    CASE method = "start" -> TaskAfterStart(st)
      [] method = "heartbeat" -> st
      [] method = "end" -> TaskAfterEnd(st)
      [] method = "fail" -> TaskAfterFail(st)
      [] method = "cancel" -> TaskAfterCancel(st)

EventsOnStoppedTwice(method, before) ==
    CASE method = "start" /\ before = "PENDING" -> <<"running">>
      [] method = "heartbeat" /\ before = "RUNNING" -> <<"heartbeat">>
      [] method = "end" /\ before = "RUNNING" -> <<"end", "stopped">>
      [] method = "fail" /\ before = "RUNNING" -> <<"fail", "stopped">>
      [] method = "cancel" /\ before \in {"PENDING", "RUNNING"} -> <<"stopped", "stopped">>
      [] OTHER -> <<>>

\* the events a call of the method fires, in order
EventsOn(method, before) ==
    CASE method = "start" /\ before = "PENDING" -> <<"running">>
      [] method = "heartbeat" /\ before = "RUNNING" -> <<"heartbeat">>
      [] method = "end" /\ before = "RUNNING" -> <<"end", "stopped">>
      [] method = "fail" /\ before = "RUNNING" -> <<"fail", "stopped">>
      [] method = "cancel" /\ before \in {"PENDING", "RUNNING"} -> <<"stopped">>
      [] OTHER -> <<>>

TkInit ==
    /\ t_state = [k \in Bodies |-> "PENDING"]
    /\ t_events = [k \in Bodies |-> <<>>]
    /\ t_calls = [k \in Bodies |-> 0]
    /\ t_returned = [k \in Bodies |-> FALSE]
    /\ t_late = [k \in Bodies |-> {}]

\* the caller calls the method of task k
Call(caller, method, k) ==
    /\ t_calls[k] < MaxTaskCalls
    /\ t_calls' = [t_calls EXCEPT ![k] = @ + 1]
    /\ t_state' = [t_state EXCEPT ![k] = TaskAfter(method, @)]
    /\ t_events' = [t_events EXCEPT ![k] = @ \o EventsOn(method, t_state[k])]
    /\ t_late' = IF t_state[k] \in Terminal
                 THEN [t_late EXCEPT ![k] = @ \cup {<<caller, t_state[k]>>}]
                 ELSE t_late

\* some thread calls start, heartbeat, end, fail or cancel
TaskStart(k) == Call("thread", "start", k) /\ UNCHANGED t_returned /\ UNCHANGED notTk

TaskHeartbeat(k) ==
    Call("thread", "heartbeat", k) /\ UNCHANGED t_returned /\ UNCHANGED notTk

TaskEnd(k) == Call("thread", "end", k) /\ UNCHANGED t_returned /\ UNCHANGED notTk

TaskFail(k) == Call("thread", "fail", k) /\ UNCHANGED t_returned /\ UNCHANGED notTk

TaskCancel(k) == Call("thread", "cancel", k) /\ UNCHANGED t_returned /\ UNCHANGED notTk

\* s3g.py lines 277-278, after the loop of the stream print: if the task is
\* not STOPPED, task.end(None)
GenericprintEnd ==
    /\ t_state["print"] # "PENDING"
    /\ ~t_returned["print"]
    /\ t_returned' = [t_returned EXCEPT !["print"] = TRUE]
    /\ IF t_state["print"] # "STOPPED"
       THEN Call("genericprint", "end", "print")
       ELSE UNCHANGED <<t_state, t_events, t_calls, t_late>>
    /\ UNCHANGED notTk

\* miraclegrue.py lines 81-84: an exception in the body of slice (a nonzero
\* exit code among them): task.fail(e), and the exception is raised again
SliceFail ==
    /\ t_state["slice"] # "PENDING"
    /\ ~t_returned["slice"]
    /\ t_returned' = [t_returned EXCEPT !["slice"] = TRUE]
    /\ Call("slice", "fail", "slice")
    /\ UNCHANGED notTk

\* miraclegrue.py lines 85-86: no exception: task.end(None)
SliceEnd ==
    /\ t_state["slice"] # "PENDING"
    /\ ~t_returned["slice"]
    /\ t_returned' = [t_returned EXCEPT !["slice"] = TRUE]
    /\ Call("slice", "end", "slice")
    /\ UNCHANGED notTk

TkNext ==
    \/ \E k \in Bodies : TaskStart(k)
    \/ \E k \in Bodies : TaskHeartbeat(k)
    \/ \E k \in Bodies : TaskEnd(k)
    \/ \E k \in Bodies : TaskFail(k)
    \/ \E k \in Bodies : TaskCancel(k)
    \/ GenericprintEnd
    \/ SliceFail
    \/ SliceEnd

(***************************************************************************)
(* MiracleGrueToolpath.slice (toolpath/miraclegrue.py lines 42-86) and the *)
(* thread that cancels its task.                                           *)
(***************************************************************************)
\* the exit codes of the subprocess: success, failure, killed by SIGTERM
ExitCodes == {"0", "1", "-15"}

SlInit ==
    /\ sl_pc = "idle"
    /\ sl_child = "none"
    /\ sl_task = "PENDING"
    /\ sl_attached = FALSE
    /\ sl_lines = 0
    /\ sl_files = {}
    /\ sl_terminates = 0
    /\ sl_cancelled = "no"

\* the task is started and its runningcallback calls slice; lines 45-54: the
\* two temporary files are made
SlTempFiles ==
    /\ sl_pc = "idle"
    /\ sl_task = "PENDING"
    /\ sl_task' = TaskAfterStart(sl_task)
    /\ sl_files' = {"startpath", "endpath"}
    /\ sl_pc' = "files"
    /\ UNCHANGED <<sl_child, sl_attached, sl_lines, sl_terminates, sl_cancelled>>
    /\ UNCHANGED notSl

\* lines 59-61: popen = subprocess.Popen(...)
SlPopen ==
    /\ sl_pc = "files"
    /\ sl_child' = "running"
    /\ sl_pc' = "spawned"
    /\ UNCHANGED <<sl_task, sl_attached, sl_lines, sl_files, sl_terminates, sl_cancelled>>
    /\ UNCHANGED notSl

\* lines 62-64: task.cancelevent.attach(cancelcallback)
SlAttach ==
    /\ sl_pc = "spawned"
    /\ sl_attached' = TRUE
    /\ sl_pc' = "reading"
    /\ UNCHANGED <<sl_child, sl_task, sl_lines, sl_files, sl_terminates, sl_cancelled>>
    /\ UNCHANGED notSl

\* lines 65-72: a line of the subprocess's output is read and logged
SlReadline ==
    /\ sl_pc = "reading"
    /\ sl_child = "running"
    /\ sl_lines < MaxSliceLines
    /\ sl_lines' = sl_lines + 1
    /\ UNCHANGED <<sl_pc, sl_child, sl_task, sl_attached, sl_files, sl_terminates,
                   sl_cancelled>>
    /\ UNCHANGED notSl

\* the subprocess exits by itself, with success or with failure
SlChildExits(code) ==
    /\ sl_child = "running"
    /\ code \in {"0", "1"}
    /\ sl_child' = code
    /\ UNCHANGED <<sl_pc, sl_task, sl_attached, sl_lines, sl_files, sl_terminates,
                   sl_cancelled>>
    /\ UNCHANGED notSl

\* another thread cancels the task: the task is STOPPED and the handlers
\* attached to its cancel event at that moment are called; lines 62-63:
\* cancelcallback calls popen.terminate(), which kills a running subprocess
SlCancel ==
    /\ sl_task \in {"PENDING", "RUNNING"}
    /\ sl_task' = TaskAfterCancel(sl_task)
    /\ sl_cancelled' = sl_child
    /\ IF sl_attached
       THEN /\ sl_terminates' = sl_terminates + 1
            /\ sl_child' = IF sl_child = "running" THEN "-15" ELSE sl_child
       ELSE UNCHANGED <<sl_terminates, sl_child>>
    /\ UNCHANGED <<sl_pc, sl_attached, sl_lines, sl_files>>
    /\ UNCHANGED notSl

\* lines 67-68 and 73-86: end of the output, code = popen.wait(); on code 0
\* the temporary files are unlinked and task.end(None) is called; on any
\* other code Exception(code) is raised, the except clause calls
\* task.fail(e) and raises it again
SlWait ==
    /\ sl_pc = "reading"
    /\ sl_child \in ExitCodes
    /\ IF sl_child = "0"
       THEN /\ sl_files' = {}
            /\ sl_task' = TaskAfterEnd(sl_task)
            /\ sl_pc' = "returned"
       ELSE /\ sl_files' = sl_files
            /\ sl_task' = TaskAfterFail(sl_task)
            /\ sl_pc' = "raised"
    /\ UNCHANGED <<sl_child, sl_attached, sl_lines, sl_terminates, sl_cancelled>>
    /\ UNCHANGED notSl

SlNext ==
    \/ SlTempFiles
    \/ SlPopen
    \/ SlAttach
    \/ SlReadline
    \/ \E code \in ExitCodes : SlChildExits(code)
    \/ SlCancel
    \/ SlWait

(***************************************************************************)
(* The start and end sequences of a print job: the wrap stage (recipe.py   *)
(* lines 251-276) writes the file that the worker's stream print reads     *)
(* (printer/s3g.py lines 206-221 and 249-265).  A line is "start", "body"  *)
(* or "end"; a profile's sequence is one line, or None.                    *)
(***************************************************************************)
\* a sequence of the profile as a list of lines; iterating None raises
Sequence(present, line) == IF present THEN <<line>> ELSE <<>>

\* n lines of the toolpath
Body(n) == [i \in 1..n |-> "body"]

SeJobs ==
    [with_start_end : BOOLEAN, skip_start_end : BOOLEAN, start : BOOLEAN, end : BOOLEAN,
     lines : 0..MaxBodyLines]

SeInit ==
    /\ se_pc = "idle"
    /\ se_job = [with_start_end |-> FALSE, skip_start_end |-> FALSE, start |-> FALSE,
                 end |-> FALSE, lines |-> 0]
    /\ se_file = <<>>
    /\ se_gcodelines = <<>>
    /\ se_streamed = <<>>

\* a print job is submitted; start and end say whether the profile has the
\* sequence or None
SeSubmit(job) ==
    /\ se_pc = "idle"
    /\ se_pc' = "job"
    /\ se_job' = job
    /\ UNCHANGED <<se_file, se_gcodelines, se_streamed>>
    /\ UNCHANGED notSe

\* recipe.py lines 253-273: the wrap stage; with with_start_end it writes the
\* start lines, the body and the end lines, else the body alone; a sequence
\* that is None makes `for line in start` raise, and the task fails
SeWrap ==
    /\ se_pc = "job"
    /\ IF se_job.with_start_end /\ ~(se_job.start /\ se_job.end)
       THEN /\ se_pc' = "failed"
            /\ UNCHANGED se_file
       ELSE /\ se_pc' = "wrapped"
            /\ se_file' = (IF se_job.with_start_end THEN Sequence(se_job.start, "start")
                                                    ELSE <<>>)
                          \o Body(se_job.lines)
                          \o (IF se_job.with_start_end THEN Sequence(se_job.end, "end")
                                                      ELSE <<>>)
    /\ UNCHANGED <<se_job, se_gcodelines, se_streamed>>
    /\ UNCHANGED notSe

\* printer/s3g.py lines 206-221: _gcodelines; unless skip_start_end, the start
\* sequence (if not None), then the lines of the file, then the end sequence
\* (if not None)
GcodeLinesOf(job, file) ==
    (IF ~job.skip_start_end THEN Sequence(job.start, "start") ELSE <<>>)
    \o file
    \o (IF ~job.skip_start_end THEN Sequence(job.end, "end") ELSE <<>>)

\* printer/s3g.py line 246: gcodelines = self._gcodelines(...)
SeGcodelines ==
    /\ se_pc = "wrapped"
    /\ se_pc' = "listed"
    /\ se_gcodelines' = GcodeLinesOf(se_job, se_file)
    /\ UNCHANGED <<se_job, se_file, se_streamed>>
    /\ UNCHANGED notSe

\* printer/s3g.py lines 249-265: the next line is dispatched to the printer
SeStreamLine ==
    /\ se_pc = "listed"
    /\ Len(se_streamed) < Len(se_gcodelines)
    /\ se_streamed' = Append(se_streamed, se_gcodelines[Len(se_streamed) + 1])
    /\ UNCHANGED <<se_pc, se_job, se_file, se_gcodelines>>
    /\ UNCHANGED notSe

\* printer/s3g.py lines 277-278: the loop is over
SeDone ==
    /\ se_pc = "listed"
    /\ Len(se_streamed) = Len(se_gcodelines)
    /\ se_pc' = "done"
    /\ UNCHANGED <<se_job, se_file, se_gcodelines, se_streamed>>
    /\ UNCHANGED notSe

\* the jobs that may be submitted: any, while none has been
SeSubmissions == IF se_pc = "idle" THEN SeJobs ELSE {}

SeNext ==
    \/ \E job \in SeSubmissions : SeSubmit(job)
    \/ SeWrap
    \/ SeGcodelines
    \/ SeStreamLine
    \/ SeDone

Init ==
    /\ now = 0
    /\ DetInit
    /\ TaskInit
    /\ WkInit
    /\ RcInit
    /\ GpInit
    /\ VfInit
    /\ PlInit
    /\ JbInit
    /\ AdInit
    /\ TkInit
    /\ SlInit
    /\ SeInit

SpecDetector == Init /\ [][DetNext]_vars

SpecWorker == Init /\ [][WkNext]_vars

SpecRecipe == Init /\ [][RcNext]_vars

SpecStream == Init /\ [][GpNext]_vars

SpecVerify == Init /\ [][VfNext]_vars

SpecPlanner == Init /\ [][PlNext]_vars

SpecProcessors == Init /\ [][JbNext]_vars

SpecAddress == Init /\ [][AdNext]_vars

SpecTask == Init /\ [][TkNext]_vars

SpecSlice == Init /\ [][SlNext]_vars

SpecStartEnd == Init /\ [][SeNext]_vars

(***************************************************************************)
(* Properties of the detector (checked under SpecDetector).                *)
(***************************************************************************)
\* the step in which the detector removes, spawns and publishes (DetApply)
DetApplies == d_pc = "diffed" /\ d_pc' = "idle"

\* C2: after blacklist(P) was called at time t, no iteration that runs at a
\* time earlier than t + blacklisttime spawns and publishes a worker for P.
C2_NoAttachWhileBlacklisted ==
    [][(DetApplies /\ unlistAtIter # NoEntry /\ iterNow < unlistAtIter)
          => P \notin attached]_vars

\* C3: when the attach/detach diff is computed, the blacklist holds no entry
\* whose unlist time is less than or equal to the iteration's current time.
C3_NoExpiredEntryAtDiff ==
    d_pc = "purged" =>
        \A p \in Ports : blacklist[p] # NoEntry => blacklist[p] > iterNow

\* C4: if P was blacklisted and stayed available, the first iteration that
\* runs after the blacklist time has expired spawns and publishes a worker for P.
C4_ReattachAfterExpiry ==
    [][(DetApplies /\ dueNow /\ P \in seen) => P \in attached]_vars

C28_NotAttachedAtExpiry ==
    [][DetApplies =>
          /\ available' = seen
          /\ (dueNow /\ P \in seen) => P \notin attached
          /\ P \in attached => P \notin lastSeen]_vars

\* C28 as amended: an iteration that reaches its end leaves the known set
\* equal to the set the library reported, blacklisted ports included; and
\* P is attached only when the iteration before reported it absent (or
\* there was none): a port reported by the iteration before is not attached,
\* whatever its blacklist entry.
C28_KnownIsReported ==
    [][DetApplies =>
          /\ available' = seen
          /\ P \in attached => P \notin lastSeen]_vars

\* C28 witness: an iteration has ended with P known, not attached and still
\* on the blacklist after its time has expired.
C28_Witness ==
    /\ d_pc = "idle"
    /\ P \in available
    /\ P \notin printers
    /\ blacklist[P] # NoEntry
    /\ blacklist[P] < now

\* C30: while the detector thread is inside an iteration, between its purge
\* of the blacklist and its read of the blacklist's keys, no caller of
\* blacklist(port) writes the blacklist.
C30_NoWriteDuringIteration ==
    [][(d_pc = "purged" /\ d_pc' = "purged") => blacklist' = blacklist]_vars

\* the step in which the detector requests removeprinter for the detached
\* ports (lines 61-62), whether or not the spawns that follow succeed
DetRemoves == d_pc = "diffed" /\ d_pc' \in {"idle", "dead"}

\* C31: removeprinter(P) is requested at most once per attachment: when it
\* is requested, it was not requested before since the latest spawn and
\* publish of a worker for P.
C31_RemoveOncePerAttachment ==
    [][(DetRemoves /\ P \in detached) => ~removedSince]_vars

(***************************************************************************)
(* Properties of the printer worker (checked under SpecWorker).            *)
(***************************************************************************)
\* the positions of the worker inside driver.print (lines 173-175)
InStreamPrint == w_pc \in {"drvattach", "drvinit", "line", "dispatch", "after", "ending"}

\* C1: the worker pops the jobs in the order they were submitted, and when
\* the stream print of a job begins every job submitted before it has a
\* task in a terminal state.
C1_SubmissionOrder ==
    /\ \A i \in DOMAIN popped : popped[i] = i
    /\ InStreamPrint => \A a \in Tasks : a < w_tuple => taskState[a] \in Terminal

\* C1 witness: the second job submitted is being streamed, popped second.
C1_Witness ==
    /\ w_pc = "line"
    /\ w_tuple = 2
    /\ popped = <<1, 2>>
    /\ w_line > 0

\* C6: stop() always returns: the thread that called it is never left waiting
\* for the worker's lock while holding that lock itself.
C6_StopNeverBlocks ==
    ~ ( /\ s_pc = "firing"
        /\ w_lock = "stopper"
        /\ fireQ["stopper"] # <<>>
        /\ Head(fireQ["stopper"]).kind = "clear" )

\* C7: when an exception escaped the worker's loop, evictprinter has been
\* called by the time the thread has terminated.
C7_EvictOnEscape ==
    (w_pc = "terminated" /\ escaped) => evicted >= 1

\* C8: the serial handle is closed exactly once when the worker thread has
\* terminated, by whatever path, and not at all before.
C8_ClosedExactlyOnce ==
    fpClosed = (IF w_pc = "terminated" THEN 1 ELSE 0)

\* C8 witness: the thread terminated after an exception escaped the loop (and
\* the except clause raised in turn), with the handle closed.
C8_Witness ==
    /\ w_pc = "terminated"
    /\ escaped
    /\ evicted = 0
    /\ fpClosed = 1

\* the driver's stopped handler of task t is still to be called by a thread
\* that is firing the stopped event and is not waiting for a lock it holds
ExtStopComing(t) ==
    \E th \in Threads :
        /\ \E i \in DOMAIN fireQ[th] : fireQ[th][i] = [kind |-> "extstop", task |-> t]
        /\ ~(Head(fireQ[th]).kind = "clear" /\ w_lock = th)

\* C15: a stream print that returned with its task not cancelled dispatched
\* every line and ended the task; when the task is cancelled with the stream
\* at line k, at most one further line is dispatched, the task is STOPPED for
\* good (end is not applied), and the writer's external stop is set (by the
\* thread that cancels, which may still be on its way to the handler).
C15_StreamOutcome ==
    /\ (returned /\ taskState[w_tuple] # "STOPPED") =>
            (taskState[w_tuple] = "ENDED" /\ w_line = GcodeLines)
    /\ cancelledAt # NoEntry =>
            /\ w_line <= cancelledAt + 1
            /\ taskState[w_tuple] = "STOPPED"
            /\ (w_tuple \in w_extstop \/ ExtStopComing(w_tuple))

(***************************************************************************)
(* Properties of the recipes (checked under SpecRecipe).                   *)
(***************************************************************************)
\* C9: when the process has reached a terminal state (ENDED, FAILED or
\* STOPPED) the recipe's temporary-file cleanup has run.
C9_CleanupOnEveryTerminalState ==
    p_state \in Terminal => cleanupRuns = 1

\* C10: once the process is ENDED, no path the recipe allocated while
\* building it is left: each has been deleted.
C10_NoScratchLeftAfterEnd ==
    p_state = "ENDED" => r_plan.alloc \cap files = {}

\* the pipeline table of the specification: the stages of each recipe
\* and method, the post-process stage in brackets
Bracket(procs) == IF procs THEN <<"gcodeprocessor">> ELSE <<>>

PipelineTable(kind, mode, procs) ==
    CASE kind = "gcode" /\ mode = "print"       -> <<"wrap", "print">>
      [] kind = "gcode" /\ mode = "printtofile" -> <<"wrap", "printtofile", "verify">>
      [] kind = "stl"   /\ mode = "print"       ->
            <<"slice">> \o Bracket(procs) \o <<"wrap", "print">>
      [] kind = "stl"   /\ mode = "printtofile" ->
            <<"slice">> \o Bracket(procs) \o <<"wrap", "printtofile", "verify">>
      [] kind = "stl"   /\ mode = "slice"       ->
            <<"slice">> \o Bracket(procs) \o <<"wrap">>
      [] kind = "dual"  /\ mode = "print"       ->
            <<"slice0", "slice1", "dualstrusion">> \o Bracket(procs) \o <<"wrap", "print">>
      [] kind = "dual"  /\ mode = "printtofile" ->
            <<"slice0", "slice1", "dualstrusion">> \o Bracket(procs)
                \o <<"wrap", "printtofile", "verify">>
      [] kind = "dual"  /\ mode = "slice"       ->
            <<"slice0", "slice1", "dualstrusion", "gcodeprocessor", "wrap">>
      [] OTHER -> <<>>

\* the stages of the pipeline built, in order
StageNames == [i \in DOMAIN r_plan.tasks |-> r_plan.tasks[i].stage]

\* stage i reads one path, the one stage i - 1 writes
ReadsPrevious(i) ==
    /\ Len(r_plan.tasks[i].inp) = 1
    /\ r_plan.tasks[i - 1].out = {r_plan.tasks[i].inp[1]}

\* C11 as claimed: the child tasks built are those of the pipeline table, the
\* post-process stage present iff the processor list is nonempty (always for
\* the dual-mesh slice), and every stage reads the output of the stage before.
C11_EveryStageReadsThePrevious ==
    p_state # "NONE" =>
        /\ StageNames = PipelineTable(r_kind, r_mode, r_procs)
        /\ \A i \in 2..Len(r_plan.tasks) : ReadsPrevious(i)

\* C11 as amended: as claimed, except that the second slice of a dual-mesh
\* pipeline reads the second mesh and the weave reads the outputs of both
\* slices; every other stage reads the output of the stage before it.
C11_PipelineTable ==
    p_state # "NONE" =>
        /\ StageNames = PipelineTable(r_kind, r_mode, r_procs)
        /\ \A i \in 2..Len(r_plan.tasks) :
              CASE r_plan.tasks[i].stage = "slice1" ->
                      r_plan.tasks[i].inp = <<"stl_1_path">>
                [] r_plan.tasks[i].stage = "dualstrusion" ->
                      /\ i = 3
                      /\ Len(r_plan.tasks[i].inp) = 2
                      /\ r_plan.tasks[1].out = {r_plan.tasks[i].inp[1]}
                      /\ r_plan.tasks[2].out = {r_plan.tasks[i].inp[2]}
                [] OTHER -> ReadsPrevious(i)

\* C11 witness: a dual-mesh print built with an empty processor list: the
\* post-process stage is skipped and the wrap reads the weave's output.
C11_Witness ==
    /\ p_state = "PENDING"
    /\ r_kind = "dual"
    /\ r_mode = "print"
    /\ ~r_procs
    /\ StageNames = <<"slice0", "slice1", "dualstrusion", "wrap", "print">>
    /\ r_plan.tasks[4].inp = <<"dualstrusion_path">>

\* C12: when the body of a task the recipe built raised an exception while the
\* task was RUNNING, the task is FAILED and the process is FAILED (and so
\* neither is left RUNNING).
C12_BodyExceptionFailsTask ==
    raisedIn # 0 => (c_state[raisedIn] = "FAILED" /\ p_state = "FAILED")

(***************************************************************************)
(* Properties of the stream print (checked under SpecStream).              *)
(***************************************************************************)
\* the sum of the raw lengths of the lines
RECURSIVE SumOfLengths(_)
SumOfLengths(gcodelines) ==
    IF gcodelines = <<>> THEN 0 ELSE Head(gcodelines) + SumOfLengths(Tail(gcodelines))

\* C13: for every toolpath streamed, the totals reported in progress are
\* totalbytes = the sum of the raw lengths of all lines and totallines = the
\* number of lines.
C13_TotalsMatchToolpath ==
    g_pc # "idle" =>
        /\ g_totallines = Len(g_gcodelines)
        /\ g_totalbytes = SumOfLengths(g_gcodelines)

\* the step that processes a line (lines 256-276, the parser not raising)
LineProcessed == g_pc = "body" /\ g_pc' = "check"

\* C14: at every line processed when the poll interval has elapsed since the
\* previous heartbeat (or since the print started), a heartbeat is emitted
\* that carries currentline, totallines, currentbyte and totalbytes, and the
\* temperature as well when temperature polling is enabled.
C14_HeartbeatWhenIntervalElapsed ==
    [][(LineProcessed /\ g_now' >= g_lastbeat + Pollinterval) =>
          /\ Len(g_beats') = Len(g_beats) + 1
          /\ DOMAIN g_beats'[Len(g_beats')] =
                {"currentline", "totallines", "currentbyte", "totalbytes"}
                    \cup (IF g_polltemperature THEN {"temperature"} ELSE {})]_vars

\* C33: every heartbeat of the stream print carries consistent progress:
\* currentbyte is the sum of the raw lengths of lines 0..currentline,
\* 0 <= currentline < totallines, and currentbyte <= totalbytes.
C33_ConsistentProgress ==
    \A k \in DOMAIN g_beats :
        /\ g_beats[k].currentline >= 0
        /\ g_beats[k].currentline < g_beats[k].totallines
        /\ g_beats[k].currentbyte =
              SumOfLengths(SubSeq(g_gcodelines, 1, g_beats[k].currentline + 1))
        /\ g_beats[k].currentbyte <= g_beats[k].totalbytes

(***************************************************************************)
(* Properties of the verify task (checked under SpecVerify).               *)
(***************************************************************************)
\* the percentages that differ from the one reported before them (the
\* record starts with progress 0), in order
RECURSIVE Changes(_, _)
Changes(reported, previous) ==
    IF reported = <<>> THEN <<>>
    ELSE (IF Head(reported) # previous THEN <<Head(reported)>> ELSE <<>>)
            \o Changes(Tail(reported), Head(reported))

\* C16: each percentage the reader reports that differs from the previously
\* reported one has produced exactly one heartbeat carrying it, a repeated
\* one none; and when verification succeeded the task has ended with true
\* and, the reader having reported 100 last, the last heartbeat reports 100.
C16_VerifyHeartbeats ==
    /\ [i \in DOMAIN v_beats |-> v_beats[i].progress] = Changes(v_reported, 0)
    /\ (v_pc = "done" /\ v_result = "True") =>
          /\ v_state = "ENDED"
          /\ (v_reported # <<>> /\ v_reported[Len(v_reported)] = 100) =>
                (v_beats # <<>> /\ v_beats[Len(v_beats)].progress = 100)

(***************************************************************************)
(* Properties of the planners (checked under SpecPlanner).                 *)
(***************************************************************************)
\* the upper-case form of a lower-case letter of the three extensions
Upper(c) ==
    CASE c = "c" -> "C" [] c = "d" -> "D" [] c = "e" -> "E" [] c = "g" -> "G"
      [] c = "h" -> "H" [] c = "i" -> "I" [] c = "l" -> "L" [] c = "n" -> "N"
      [] c = "o" -> "O" [] c = "s" -> "S" [] c = "t" -> "T" [] OTHER -> c

\* the extension of job.path is e (in lower case), in some letter case
ExtensionIs(e) ==
    /\ Len(SplitExt(pl_path)) = Len(e)
    /\ \A i \in DOMAIN e : SplitExt(pl_path)[i] \in {e[i], Upper(e[i])}

\* the error a call failed with: the error its exception class stands for
Failure(result) ==
    IF result.raised \in DOMAIN ErrorOf THEN ErrorOf[result.raised] ELSE result.raised

InputClassification == {"UNSUPPORTED_MODEL", "MISSING_FILE", "NOT_FILE", "INVALID_COMPOSITE"}

\* C17: getrecipe selects the planner from the extension of job.path alone,
\* whatever its letter case: '.gcode' the toolpath planner, '.stl' the mesh
\* planner, '.thing' the composite planner; any other extension, or none,
\* fails with UNSUPPORTED_MODEL and builds no recipe.
C17_PlannerByLoweredExtension ==
    pl_pc = "done" =>
        /\ ExtensionIs(<<".", "g", "c", "o", "d", "e">>) <=> pl_result.planner = "gcode"
        /\ ExtensionIs(<<".", "s", "t", "l">>) <=> pl_result.planner = "stl"
        /\ ExtensionIs(<<".", "t", "h", "i", "n", "g">>) <=> pl_result.planner = "thing"
        /\ pl_result.planner = "none" =>
              (Failure(pl_result) = "UNSUPPORTED_MODEL" /\ pl_result.recipe = "None")
        /\ (pl_result.planner = "gcode" /\ pl_fs = "file") => pl_result.recipe = "_GcodeRecipe"
        /\ (pl_result.planner = "stl" /\ pl_fs = "file") => pl_result.recipe = "_StlRecipe"

\* C17 witness: a path with an upper-case extension planned as a toolpath, and
\* the call done.
C17_Witness ==
    /\ pl_pc = "done"
    /\ pl_path = <<"a", ".", "G", "C", "O", "D", "E">>
    /\ pl_fs = "file"
    /\ pl_result.recipe = "_GcodeRecipe"

\* C18: in the toolpath planner and in the mesh planner, a job.path that does
\* not exist fails with MISSING_FILE and one that exists but is no regular
\* file with NOT_FILE; no recipe is returned and the error is an
\* input-classification error.
C18_PathErrors ==
    (pl_pc = "done" /\ pl_result.planner \in {"gcode", "stl"} /\ pl_fs # "file") =>
        /\ Failure(pl_result) = (IF pl_fs = "missing" THEN "MISSING_FILE" ELSE "NOT_FILE")
        /\ Failure(pl_result) \in InputClassification
        /\ pl_result.recipe = "None"

\* C19: when the splitter ran, a non-zero exit code gives INVALID_COMPOSITE
\* whatever files exist; exit code 0 gives the dual-mesh recipe over (mesh 0,
\* mesh 1) if both files exist, the single-mesh recipe over the one file that
\* exists if exactly one does, and INVALID_COMPOSITE if neither does.
C19_CompositePlanning ==
    (pl_pc = "done" /\ pl_result.planner = "thing" /\ pl_fs # "missing") =>
        /\ pl_code # 0 =>
              (Failure(pl_result) = "INVALID_COMPOSITE" /\ pl_result.recipe = "None")
        /\ (pl_code = 0 /\ pl_meshes = {0, 1}) =>
              /\ pl_result.recipe = "_DualThingRecipe"
              /\ pl_result.over = <<"stl_0_path", "stl_1_path">>
        /\ (pl_code = 0 /\ pl_meshes = {0}) =>
              (pl_result.recipe = "_SingleThingRecipe" /\ pl_result.over = <<"stl_0_path">>)
        /\ (pl_code = 0 /\ pl_meshes = {1}) =>
              (pl_result.recipe = "_SingleThingRecipe" /\ pl_result.over = <<"stl_1_path">>)
        /\ (pl_code = 0 /\ pl_meshes = {}) =>
              (Failure(pl_result) = "INVALID_COMPOSITE" /\ pl_result.recipe = "None")

\* C19 witness: the splitter exited with 0 and left the second mesh only; the
\* plan is a single-mesh recipe over it.
C19_Witness ==
    /\ pl_pc = "done"
    /\ pl_result.planner = "thing"
    /\ pl_code = 0
    /\ pl_meshes = {1}
    /\ pl_result.recipe = "_SingleThingRecipe"
    /\ pl_result.over = <<"stl_1_path">>

(***************************************************************************)
(* Properties of the processor selection (checked under SpecProcessors).   *)
(***************************************************************************)
\* no name occurs twice in l
NoDuplicates(l) == \A a, b \in DOMAIN l : l[a] = l[b] => a = b

\* the entries of `own` are all in l, in the order they have in `own`
KeepsOrder(own, l) ==
    \E f \in [DOMAIN own -> DOMAIN l] :
        /\ \A i \in DOMAIN own : l[f[i]] = own[i]
        /\ \A a, b \in DOMAIN own : a < b => f[a] < f[b]

\* C20: for a job whose processor list has no duplicates, whatever the
\* slicer, the slicer path and the profile, every call of getgcodeprocessors
\* returns a list without duplicates in which the job's own entries keep their
\* relative order, and every call returns the list the first call returned.
C20_SelectionStable ==
    \A k \in DOMAIN j_results :
        /\ NoDuplicates(j_results[k])
        /\ KeepsOrder(j_original, j_results[k])
        /\ j_results[k] = j_results[1]

\* C20 witness: a legacy-slicer job with a processor of its own, asked twice:
\* the anchor went in front, the two others behind, both times.
C20_Witness ==
    /\ j_original = <<"OtherProcessor">>
    /\ Len(j_results) = 2
    /\ j_results[2] = <<"AnchorProcessor", "OtherProcessor", "Skeinforge50Processor",
                        "FanProcessor">>

\* C21: whenever the active profile is Replicator2, the list a call of
\* getgcodeprocessors returns contains the fan processor, whatever the
\* slicer and the job's own processor list.
C21_FanOnReplicator2 ==
    \A k \in DOMAIN j_results :
        j_job.profile = "Replicator2" => Contains(j_results[k], "FanProcessor")

\* C22: a job is immutable after submission: computing the processor list and
\* the per-extruder slicer settings leaves job.gcodeprocessor and
\* job.slicer_settings exactly as submitted.
C22_JobAsSubmitted ==
    j_pc = "ready" =>
        /\ j_job.none = j_submitted.none
        /\ j_job.list = j_submitted.list
        /\ j_job.slicer = j_submitted.slicer
        /\ j_job.path = j_submitted.path

(***************************************************************************)
(* Properties of the address parser (checked under SpecAddress).           *)
(***************************************************************************)
\* the positions of the colons of the argument, in order
ColonAt(n) ==
    IF n = 1 THEN Find(a_s, ":")
    ELSE IF Find(a_s, ":") = 0 THEN 0
    ELSE IF Find(SubSeq(a_s, Find(a_s, ":") + 1, Len(a_s)), ":") = 0 THEN 0
    ELSE Find(a_s, ":") + Find(SubSeq(a_s, Find(a_s, ":") + 1, Len(a_s)), ":")

\* the protocol: what stands before the first colon
ProtocolPart == IF ColonAt(1) = 0 THEN a_s ELSE SubSeq(a_s, 1, ColonAt(1) - 1)

\* the path of a pipe address: what stands after the first colon
PathPart == SubSeq(a_s, ColonAt(1) + 1, Len(a_s))

\* the host of a tcp address: what stands between the first colon and the
\* second (or the end)
HostPart ==
    IF ColonAt(2) = 0 THEN SubSeq(a_s, ColonAt(1) + 1, Len(a_s))
    ELSE SubSeq(a_s, ColonAt(1) + 1, ColonAt(2) - 1)

\* the port of a tcp address: what stands after the second colon
PortPart == SubSeq(a_s, ColonAt(2) + 1, Len(a_s))

\* the outcomes that do not depend on a tcp address lacking host and port
OtherOutcomes ==
    /\ ProtocolPart \notin {<<"pipe">>, <<"tcp">>} =>
            a_result.kind = "UnknownProtocolException"
    /\ (ProtocolPart = <<"pipe">> /\ (ColonAt(1) = 0 \/ PathPart = <<>>)) =>
            a_result.kind = "MissingPathException"
    /\ (ProtocolPart = <<"pipe">> /\ ColonAt(1) # 0 /\ PathPart # <<>>) =>
            (a_result.kind = "PipeAddress" /\ a_result.path = PathPart)
    /\ (ProtocolPart = <<"tcp">> /\ ColonAt(2) # 0 /\ HostPart # <<>>
            /\ ~IntOf(PortPart).ok) =>
            (a_result.kind = "InvalidPortException" /\ a_result.badport = PortPart)
    /\ (ProtocolPart = <<"tcp">> /\ ColonAt(2) # 0 /\ HostPart # <<>>
            /\ IntOf(PortPart).ok) =>
            /\ a_result.kind = "TcpAddress"
            /\ a_result.host = HostPart
            /\ a_result.port = IntOf(PortPart).value

\* C23 as claimed: every string has the one outcome its form gives: an
\* unknown protocol UNKNOWN_PROTOCOL; pipe without a path MISSING_PATH; tcp
\* with the host absent or empty MISSING_HOST; tcp with a nonempty host and no
\* port part MISSING_PORT; tcp with a port that is no integer INVALID_PORT
\* with the port string; else the Pipe(path) or Tcp(host, port) address.
C23_ParseOutcome ==
    a_pc = "done" =>
        /\ OtherOutcomes
        /\ (ProtocolPart = <<"tcp">> /\ (ColonAt(1) = 0 \/ HostPart = <<>>)) =>
                a_result.kind = "MissingHostException"
        /\ (ProtocolPart = <<"tcp">> /\ ColonAt(1) # 0 /\ HostPart # <<>>
                /\ ColonAt(2) = 0) =>
                a_result.kind = "MissingPortException"

\* C23 as amended: as claimed, except that tcp with no port part after the
\* host gives MISSING_PORT also when the host is empty ("tcp:"); MISSING_HOST
\* is for "tcp" with nothing after it and for an empty host before a port part.
C23_ParseOutcomeHostBeforePort ==
    a_pc = "done" =>
        /\ OtherOutcomes
        /\ (ProtocolPart = <<"tcp">> /\ (ColonAt(1) = 0 \/ (ColonAt(2) # 0 /\ HostPart = <<>>))) =>
                a_result.kind = "MissingHostException"
        /\ (ProtocolPart = <<"tcp">> /\ ColonAt(1) # 0 /\ ColonAt(2) = 0) =>
                a_result.kind = "MissingPortException"

\* C23 witness: "tcp:" parsed, with MISSING_PORT.
C23_Witness ==
    /\ a_pc = "done"
    /\ a_s = <<"tcp", ":">>
    /\ a_result.kind = "MissingPortException"

(***************************************************************************)
(* Properties of the Task state machine (checked under SpecTask).          *)
(***************************************************************************)
\* C24: a call of start, heartbeat, end, fail or cancel on a task that is
\* ENDED, FAILED or STOPPED changes no state and fires no event, the end of
\* the stream print on a FAILED task and the fail of the slicer on a
\* cancelled task among them.
C24_TerminalCallsAreNoOps ==
    [][\A k \in Bodies :
          t_state[k] \in Terminal => (t_state'[k] = t_state[k] /\ t_events'[k] = t_events[k])]_vars

\* C24 witness: the stream print has applied end to its FAILED task, and the
\* slicer has applied fail to its cancelled task.
C24_Witness ==
    /\ <<"genericprint", "FAILED">> \in t_late["print"]
    /\ <<"slice", "STOPPED">> \in t_late["slice"]

\* how often the event was fired
Count(log, e) == Cardinality({i \in DOMAIN log : log[i] = e})

\* C25: whatever the calls, a task that has made its terminal transition
\* has fired exactly one of end, fail and (when cancelled) stopped for it,
\* has fired stopped exactly once, and has fired nothing after stopped; a
\* task that has not made it has fired none of the three.
C25_OneTerminalEventStoppedLast ==
    \A k \in Bodies :
        LET log == t_events[k]
        IN /\ Count(log, "end") = (IF t_state[k] = "ENDED" THEN 1 ELSE 0)
           /\ Count(log, "fail") = (IF t_state[k] = "FAILED" THEN 1 ELSE 0)
           /\ Count(log, "stopped") = (IF t_state[k] \in Terminal THEN 1 ELSE 0)
           /\ t_state[k] \in Terminal => log[Len(log)] = "stopped"

\* C25 witness: a task ended after a heartbeat, another was cancelled, and
\* calls were made on both afterwards.
C25_Witness ==
    /\ t_events["print"] = <<"running", "heartbeat", "end", "stopped">>
    /\ t_events["slice"] = <<"running", "stopped">>
    /\ t_late["print"] # {}
    /\ t_late["slice"] # {}

(***************************************************************************)
(* Properties of the process of a recipe (checked under SpecRecipe).       *)
(***************************************************************************)
\* the children in the order they fired running
RECURSIVE Started(_)
Started(log) ==
    IF log = <<>> THEN <<>>
    ELSE IF Head(log)[1] = "running" THEN <<Head(log)[2]>> \o Started(Tail(log))
    ELSE Started(Tail(log))

\* the place of the event in the log, 0 if it was not fired
Position(e) ==
    IF \E n \in DOMAIN c_log : c_log[n] = e
    THEN CHOOSE n \in DOMAIN c_log : c_log[n] = e
    ELSE 0

\* C26: when the process is ENDED every child is ENDED, the children entered
\* RUNNING in index order and each child's end came before the next child's
\* running; and the stopped event a child fires after its own end does not
\* stop the process: a STOPPED process was cancelled or has a cancelled child.
C26_EndedInOrder ==
    /\ p_state = "ENDED" =>
          /\ \A i \in DOMAIN c_state : c_state[i] = "ENDED"
          /\ Started(c_log) = [i \in DOMAIN c_state |-> i]
          /\ \A i \in DOMAIN c_state :
                i < Len(c_state) =>
                    /\ Position(<<"end", i>>) > 0
                    /\ Position(<<"end", i>>) < Position(<<"running", i + 1>>)
    /\ p_state = "STOPPED" =>
          \/ Position(<<"cancel", 0>>) > 0
          \/ \E i \in DOMAIN c_state : c_state[i] = "STOPPED"

\* C26 witness: a process of several children has ENDED, and its first child
\* fired stopped after the second was started.
C26_Witness ==
    /\ p_state = "ENDED"
    /\ Len(c_state) >= 3
    /\ Position(<<"stopped", 1>>) > Position(<<"running", 2>>)
    /\ Position(<<"running", 2>>) > 0

\* the stages before the print and print-to-file stages
Preparing == {"slice", "slice0", "slice1", "gcodeprocessor", "dualstrusion", "wrap"}

\* C27: when a child is FAILED every later child is PENDING and was never
\* started, and the process is FAILED with the child's cause; so no print
\* or print-to-file stage is started after a failed slice, post-process,
\* weave or wrap stage.
C27_FailureStopsThePipeline ==
    \A i \in DOMAIN c_state :
        c_state[i] = "FAILED" =>
            /\ \A j \in DOMAIN c_state :
                  j > i => (c_state[j] = "PENDING" /\ Position(<<"running", j>>) = 0)
            /\ p_state = "FAILED"
            /\ c_cause[i] # "None"
            /\ p_cause = c_cause[i]
            /\ r_plan.tasks[i].stage \in Preparing =>
                  \A j \in DOMAIN c_state :
                      r_plan.tasks[j].stage \in {"print", "printtofile"} =>
                          Position(<<"running", j>>) = 0

\* C27 witness: a wrap stage has failed in a pipeline that prints.
C27_Witness ==
    \E i \in DOMAIN c_state :
        /\ c_state[i] = "FAILED"
        /\ r_plan.tasks[i].stage = "wrap"
        /\ \E j \in DOMAIN c_state : j > i /\ r_plan.tasks[j].stage = "print"

(***************************************************************************)
(* Properties of the slicer (checked under SpecSlice).                     *)
(***************************************************************************)
\* C29: when the task was cancelled while the subprocess was running,
\* terminate() was called on the subprocess, the slice call does not leave
\* by an exception, and once it has left the task is STOPPED.
C29_CancelTerminatesTheChild ==
    sl_cancelled = "running" =>
        /\ sl_terminates > 0
        /\ sl_pc # "raised"
        /\ sl_pc = "returned" => sl_task = "STOPPED"

C34_CurrentTaskNullWhenIdle ==
    (w_pc \in {"idle", "wait", "waiting"} /\ \A th \in Threads : fireQ[th] = <<>>)
        => w_currenttask = NoTask

\* C35: when the worker thread has ended after a stop(), every print task
\* that was submitted to it is in a terminal state: none is left RUNNING in
\* the queue, where nothing will end it.
C35_NoTaskLeftAfterStop ==
    (w_stop /\ w_pc = "terminated") =>
        \A t \in Tasks : t <= submitted => taskState[t] \in Terminal

(***************************************************************************)
(* More properties of the recipes (checked under SpecRecipe).              *)
(***************************************************************************)
\* the paths the stages of the plan write
Created(plan) == UNION {plan.tasks[i].out : i \in DOMAIN plan.tasks}

\* C36: the cleanup handler of a recipe calls os.unlink at most once for
\* each path, and only for paths some stage of the recipe created, whatever
\* the recipe, the mode and the processor list.
C36_UnlinkEachPathOnce ==
    /\ \A i, j \in DOMAIN unlinkCalls : i # j => unlinkCalls[i] # unlinkCalls[j]
    /\ \A i \in DOMAIN unlinkCalls : unlinkCalls[i] \in Created(r_plan)

====
